---------------------------- MODULE Spec2Model ----------------------------
(***************************************************************************)
(* A model of the ScamBait honeypot engine: the session store and phase    *)
(* state machine (src/src/honeypot_agent.py), the regex intelligence       *)
(* extractor (src/src/intelligence.py), the scam detector and red-flag     *)
(* classifier (src/src/scam_detection.py), and the POST /api/honeypot      *)
(* handler with its reporting call (src/src/main.py).                      *)
(*                                                                         *)
(* Texts are TLA+ strings.  The five compiled patterns of src/src/config.py*)
(* are modelled character by character (leftmost match, greedy with        *)
(* backtracking, non-overlapping findall), so extraction is computed as    *)
(* the code computes it.                                                   *)
(***************************************************************************)
EXTENDS Integers, Sequences, FiniteSets, Bags, TLC

(***************************************************************************)
(* Characters and character classes                                        *)
(***************************************************************************)

\* The i-th character of text t, "" outside the text.
Ch(t, i) == IF i >= 1 /\ i <= Len(t) THEN SubSeq(t, i, i) ELSE ""

Digits == {"0", "1", "2", "3", "4", "5", "6", "7", "8", "9"}

Lowers == {"a", "b", "c", "d", "e", "f", "g", "h", "i", "j", "k", "l", "m",
           "n", "o", "p", "q", "r", "s", "t", "u", "v", "w", "x", "y", "z"}

Uppers == {"A", "B", "C", "D", "E", "F", "G", "H", "I", "J", "K", "L", "M",
           "N", "O", "P", "Q", "R", "S", "T", "U", "V", "W", "X", "Y", "Z"}

Alpha == Lowers \cup Uppers

Alnum == Alpha \cup Digits

\* \s of the patterns
Whitespace == {" ", "\t", "\n", "\r"}

\* \w of the patterns: \b is a change of word-character status
WordChars == Alnum \cup {"_"}

\* [a-zA-Z0-9._%+-] : the local part of the email pattern
EmailLocalChars == Alnum \cup {".", "_", "%", "+", "-"}

\* [a-zA-Z0-9.-] : the domain part of the email pattern
EmailDomainChars == Alnum \cup {".", "-"}

\* [a-zA-Z0-9._-] : the local part of the upi pattern
UpiLocalChars == Alnum \cup {".", "_", "-"}

\* str.casefold() on a text of at most one character (the texts are ASCII)
LowerOf(c) ==
    CASE c = "A" -> "a" [] c = "B" -> "b" [] c = "C" -> "c" [] c = "D" -> "d"
      [] c = "E" -> "e" [] c = "F" -> "f" [] c = "G" -> "g" [] c = "H" -> "h"
      [] c = "I" -> "i" [] c = "J" -> "j" [] c = "K" -> "k" [] c = "L" -> "l"
      [] c = "M" -> "m" [] c = "N" -> "n" [] c = "O" -> "o" [] c = "P" -> "p"
      [] c = "Q" -> "q" [] c = "R" -> "r" [] c = "S" -> "s" [] c = "T" -> "t"
      [] c = "U" -> "u" [] c = "V" -> "v" [] c = "W" -> "w" [] c = "X" -> "x"
      [] c = "Y" -> "y" [] c = "Z" -> "z" [] OTHER -> c

\* str.casefold(): character by character, the text split in halves
RECURSIVE casefold(_)
casefold(t) ==
    IF Len(t) <= 1 THEN LowerOf(t)
    ELSE casefold(SubSeq(t, 1, Len(t) \div 2))
         \o casefold(SubSeq(t, Len(t) \div 2 + 1, Len(t)))

\* Python's  sub in t  on strings
Contains(t, sub) ==
    \E i \in 1..(Len(t) - Len(sub) + 1) : SubSeq(t, i, i + Len(sub) - 1) = sub

\* The index just after the longest run of characters of class cls that
\* starts at i (i itself when t[i] is not in cls): a greedy  [cls]*
RECURSIVE RunEnd(_, _, _)
RunEnd(t, i, cls) ==
    IF i <= Len(t) /\ Ch(t, i) \in cls THEN RunEnd(t, i + 1, cls) ELSE i

\* \b at the gap before position i
WordBoundary(t, i) == (Ch(t, i - 1) \in WordChars) # (Ch(t, i) \in WordChars)

(***************************************************************************)
(* COMPILED_PATTERNS (src/src/config.py).  Each XxxEnd(t, i) is the index  *)
(* of the last character of the pattern's match starting at i, 0 when the  *)
(* pattern does not match at i.                                            *)
(***************************************************************************)

\* "email": [a-zA-Z0-9._%+-]+@[a-zA-Z0-9.-]+\.[a-zA-Z]{2,}
\* The greedy domain backtracks to the last dot that has a character before
\* it and at least two letters after it; the letters are then taken greedily.
EmailEnd(t, i) ==
    LET at == RunEnd(t, i, EmailLocalChars)
        d0 == at + 1
        dEnd == RunEnd(t, d0, EmailDomainChars) - 1
        dots == {q \in (d0 + 1)..dEnd :
                    /\ Ch(t, q) = "."
                    /\ RunEnd(t, q + 1, Alpha) - (q + 1) >= 2}
    IN  IF at > i /\ Ch(t, at) = "@" /\ dots # {}
        THEN LET q == CHOOSE x \in dots : \A y \in dots : y <= x
             IN  RunEnd(t, q + 1, Alpha) - 1
        ELSE 0

\* "upi": [a-zA-Z0-9._-]+@[a-zA-Z]+
UpiEnd(t, i) ==
    LET at == RunEnd(t, i, UpiLocalChars)
        e == RunEnd(t, at + 1, Alpha)
    IN  IF at > i /\ Ch(t, at) = "@" /\ e > at + 1 THEN e - 1 ELSE 0

\* exactly ten digits at i..i+9
TenDigits(t, i) == \A k \in i..(i + 9) : Ch(t, k) \in Digits

\* "phone": \+91[\s-]?\d{10}|\b\d{10}\b
PhoneEnd(t, i) ==
    IF SubSeq(t, i, IF i + 2 <= Len(t) THEN i + 2 ELSE Len(t)) = "+91"
    THEN IF Ch(t, i + 3) \in (Whitespace \cup {"-"})
         THEN IF TenDigits(t, i + 4) THEN i + 13 ELSE 0
         ELSE IF TenDigits(t, i + 3) THEN i + 12 ELSE 0
    ELSE IF /\ TenDigits(t, i)
            /\ WordBoundary(t, i)
            /\ WordBoundary(t, i + 10)
         THEN i + 9
         ELSE 0

\* the text at i starts with pre, ignoring case (re.IGNORECASE)
StartsWithNoCase(t, i, pre) ==
    /\ i + Len(pre) - 1 <= Len(t)
    /\ casefold(SubSeq(t, i, i + Len(pre) - 1)) = pre

\* "url": https?://[^\s]+|www\.[^\s]+   (re.IGNORECASE)
UrlEnd(t, i) ==
    LET NonSpaceEnd(j) ==
            LET s == {k \in j..Len(t) : Ch(t, k) \in Whitespace}
            IN  IF s = {} THEN Len(t)
                ELSE (CHOOSE x \in s : \A y \in s : x <= y) - 1
        After(pre) ==
            IF StartsWithNoCase(t, i, pre) /\ NonSpaceEnd(i + Len(pre)) >= i + Len(pre)
            THEN NonSpaceEnd(i + Len(pre))
            ELSE 0
    IN  IF After("https://") # 0 THEN After("https://")
        ELSE IF After("http://") # 0 THEN After("http://")
        ELSE After("www.")

\* "bank_account": \b\d{10,18}\b
\* Giving digits back never reaches a word boundary, so the pattern matches
\* only a whole run of 10 to 18 digits between two boundaries.
BankEnd(t, i) ==
    LET r == RunEnd(t, i, Digits)
    IN  IF /\ r - i >= 10
           /\ r - i <= 18
           /\ WordBoundary(t, i)
           /\ WordBoundary(t, r)
        THEN r - 1
        ELSE 0

PatternKeys == {"upi", "phone", "url", "bank_account", "email"}

MatchEnd(key, t, i) ==
    CASE key = "email" -> EmailEnd(t, i)
      [] key = "upi" -> UpiEnd(t, i)
      [] key = "phone" -> PhoneEnd(t, i)
      [] key = "url" -> UrlEnd(t, i)
      [] key = "bank_account" -> BankEnd(t, i)

\* re.Pattern.findall from position i: leftmost matches, not overlapping
RECURSIVE FindAllFrom(_, _, _)
FindAllFrom(key, t, i) ==
    LET starts == {j \in i..Len(t) : MatchEnd(key, t, j) # 0}
    IN  IF starts = {} THEN <<>>
        ELSE LET j == CHOOSE x \in starts : \A y \in starts : x <= y
             IN  <<SubSeq(t, j, MatchEnd(key, t, j))>>
                 \o FindAllFrom(key, t, MatchEnd(key, t, j) + 1)

\* re.Pattern.search(text) is not None
Search(key, t) == \E i \in 1..Len(t) : MatchEnd(key, t, i) # 0

(***************************************************************************)
(* Static tables (src/src/config.py)                                       *)
(***************************************************************************)

MIN_MESSAGES == 5

MAX_MESSAGES == 10

SCAM_KEYWORDS == <<
    "urgent", "blocked", "suspended", "verify", "otp", "kyc", "pan",
    "aadhaar", "account", "bank", "upi", "transfer", "payment",
    "immediately", "click", "link", "update", "expire", "freeze", "locked",
    "compromised", "share", "identity", "security", "prevent",
    "suspension", "digit", "minutes", "hours", "lottery", "prize",
    "winner", "won", "congratulations", "claim", "lakh", "crore", "rupees",
    "jackpot", "lucky", "draw", "police", "arrest", "court", "legal",
    "case", "crime", "fraud", "refund", "cashback", "reward", "bonus",
    "offer", "limited" >>

RED_FLAG_CATEGORIES == <<
    [id |-> "URGENCY_PRESSURE",
     label |-> "Urgency / pressure tactics",
     triggers |-> {
        "urgent", "immediately", "act now", "expire", "last chance",
        "right now", "act fast", "hurry", "quick", "limited time",
        "within minutes", "within hours", "today only", "don't delay",
        "minutes", "hours", "seconds" }],
    [id |-> "AUTHORITY_IMPERSONATION",
     label |-> "Impersonation of authority / institution",
     triggers |-> {
        "bank", "rbi", "sbi", "government", "police", "court",
        "reserve bank", "income tax", "sebi", "customs", "telecom",
        "officer", "manager", "department", "ministry", "aadhaar" }],
    [id |-> "FINANCIAL_REQUEST",
     label |-> "Request for money / financial transaction",
     triggers |-> {
        "send money", "transfer", "pay", "upi", "payment",
        "processing fee", "registration fee", "advance amount", "deposit",
        "invest", "amount", "rupees", "rs." }],
    [id |-> "PERSONAL_INFO_REQUEST",
     label |-> "Request for sensitive personal information",
     triggers |-> {
        "otp", "password", "pin", "cvv", "card number", "aadhaar", "pan",
        "kyc", "verify identity", "share details", "bank details",
        "account number", "login", "credentials" }],
    [id |-> "TOO_GOOD_TO_BE_TRUE",
     label |-> "Too-good-to-be-true offer",
     triggers |-> {
        "lottery", "won", "prize", "congratulations", "winner",
        "guaranteed returns", "double", "triple", "jackpot", "lakh",
        "crore", "free", "lucky draw", "cashback", "reward" }],
    [id |-> "THREATENING_LANGUAGE",
     label |-> "Threatening / fear-based language",
     triggers |-> {
        "arrest", "court", "legal action", "case filed", "jail", "warrant",
        "crime", "fraud", "suspend", "block", "freeze", "locked",
        "compromised", "terminate", "penalty", "fine" }],
    [id |-> "SUSPICIOUS_LINKS",
     label |-> "Contains suspicious links or redirects",
     triggers |-> {
        "http://", "https://", "www.", "click here", "click link", ".xyz",
        ".tk", ".ml", "bit.ly", "tinyurl" }],
    [id |-> "UPFRONT_PAYMENT",
     label |-> "Upfront payment required before benefit",
     triggers |-> {
        "processing fee", "registration fee", "tax amount", "claim charge",
        "advance", "fee before", "pay to receive", "pay first",
        "token amount" }],
    [id |-> "SECRECY_REQUEST",
     label |-> "Request for secrecy",
     triggers |-> {
        "don't tell", "keep secret", "confidential", "private",
        "between us", "do not share", "alone" }]
 >>

(***************************************************************************)
(* The texts of the requests.  What the detector, the classifier and the   *)
(* patterns compute from a text depends on the text alone, so it is        *)
(* tabulated once over these texts; a text outside the table is analysed   *)
(* directly.                                                               *)
(***************************************************************************)

BENIGN == "hello, good morning"

SCAM == "Your account is blocked, verify immediately and send OTP"

\* a reply of ours, as an evaluator replays it in conversationHistory
AGENT_TEXT == "Ji? Kaun bol raha hai?"

\* texts that carry identifiers
TEXT_UPI_PHONE == "pay to scam@fakebank or call 9876543210"

TEXT_ACCOUNT == "a/c 919876543210"

TEXT_PHONE_SPACE == "+91 9876543210"

TEXT_PHONE_DASH == "call +91-9876543210 or 9876543210"

TEXT_EMAIL == "mail scam@fakebank.com"

TEXT_URL == "see http://evil.xyz/pay."

IntelTexts == {TEXT_UPI_PHONE, TEXT_ACCOUNT, TEXT_PHONE_SPACE,
               TEXT_PHONE_DASH, TEXT_EMAIL, TEXT_URL}

\* texts with one payment handle that has no dotted domain and one
\* standalone 10-digit number, in several arrangements
Handles == {"scam@fakebank", "a.b_c-1@ybl", "x@y"}

Numbers == {"9876543210", "0123456789", "9999999999"}

Arrangements == 1..4

HandleText(k, handle, number) ==
    CASE k = 1 -> "pay to " \o handle \o " or call " \o number
      [] k = 2 -> number \o " " \o handle
      [] k = 3 -> handle \o "," \o number \o "."
      [] k = 4 -> "Call " \o number \o ", pay " \o handle \o "!"

HandleCases ==
    {[text |-> HandleText(k, h, n), handle |-> h, number |-> n] :
        k \in Arrangements, h \in Handles, n \in Numbers}

HandleTexts == {c.text : c \in HandleCases}

\* a text whose only signal is a red-flag trigger ("hurry")
RED_FLAG_ONLY == "hurry up sir"

\* a text whose only signal is one scam keyword ("lucky")
ONE_KEYWORD == "you are lucky"

\* a text whose only signal is an identifier (a 12-digit run)
ONLY_ACCOUNT == "919876543210"

SignalTexts == {RED_FLAG_ONLY, ONE_KEYWORD, ONLY_ACCOUNT}

Corpus == {BENIGN, SCAM, AGENT_TEXT} \cup IntelTexts \cup HandleTexts
            \cup SignalTexts

(***************************************************************************)
(* Scam detection (src/src/scam_detection.py)                              *)
(***************************************************************************)

\* [kw for kw in SCAM_KEYWORDS if kw in text.casefold()]
KeywordsIn(text) ==
    SelectSeq(SCAM_KEYWORDS, LAMBDA kw : Contains(casefold(text), kw))

KeywordTable == [t \in Corpus |-> KeywordsIn(t)]

keywords_in(text) ==
    IF text \in Corpus THEN KeywordTable[text] ELSE KeywordsIn(text)

\* sum(1 for kw in SCAM_KEYWORDS if kw in text.casefold())
keyword_hits(text) == Len(keywords_in(text))

\* some trigger of the category occurs in the casefolded text
CategoryMatches(cat, text_lower) ==
    \E trigger \in cat.triggers : Contains(text_lower, trigger)

\* The confidence of detect_scam in tenths.  The code adds the floats 0.6,
\* 0.3 and 0.2 to 0.0 and compares with 0.3, 0.2 or 0.1; the smallest
\* nonzero sums, 0.2 and 0.3, are exact, so tenths compare the same way.
Confidence(text) ==
    LET hits == Len(KeywordsIn(text))
        layer1 == IF hits >= 2 THEN 6 ELSE IF hits = 1 THEN 3 ELSE 0
        layer2 == 3 * Cardinality({key \in PatternKeys : Search(key, text)})
        layer3 == IF \E k \in 1..Len(RED_FLAG_CATEGORIES) :
                        CategoryMatches(RED_FLAG_CATEGORIES[k], casefold(text))
                  THEN 2 ELSE 0
    IN  layer1 + layer2 + layer3

ConfidenceTable == [t \in Corpus |-> Confidence(t)]

confidence(text) ==
    IF text \in Corpus THEN ConfidenceTable[text] ELSE Confidence(text)

\* the threshold of turn 1 applied at every turn
threshold_Flat(turn) == 3

\* the turn-dependent threshold of detect_scam, in tenths
threshold(turn) == IF turn <= 1 THEN 3 ELSE IF turn <= 2 THEN 2 ELSE 1

\* detect_scam with a strict comparison: the threshold itself is not enough
detect_scam_Strict(text, turn) == confidence(text) > threshold(turn)

detect_scam(text, turn) == confidence(text) >= threshold(turn)

\* the labels of the matching categories, in table order
RECURSIVE RedFlagsFrom(_, _)
RedFlagsFrom(text_lower, k) ==
    IF k > Len(RED_FLAG_CATEGORIES) THEN <<>>
    ELSE (IF CategoryMatches(RED_FLAG_CATEGORIES[k], text_lower)
          THEN <<RED_FLAG_CATEGORIES[k].label>> ELSE <<>>)
         \o RedFlagsFrom(text_lower, k + 1)

RedFlagTable == [t \in Corpus |-> RedFlagsFrom(casefold(t), 1)]

identify_red_flags(text) ==
    IF text \in Corpus THEN RedFlagTable[text]
    ELSE RedFlagsFrom(casefold(text), 1)

\* COMPILED_PATTERNS[key].findall(text)
FindAllTable ==
    [t \in Corpus |-> [key \in PatternKeys |-> FindAllFrom(key, t, 1)]]

findall(key, text) ==
    IF text \in Corpus THEN FindAllTable[text][key]
    ELSE FindAllFrom(key, text, 1)

(***************************************************************************)
(* Intelligence extraction (src/src/intelligence.py)                       *)
(***************************************************************************)

\* x in list
InList(x, list) == \E k \in 1..Len(list) : list[k] = x

\* list.append(x) without the membership test
AppendIfNew_Always(list, x) == Append(list, x)

\* if x not in list: list.append(x)
AppendIfNew(list, x) == IF InList(x, list) THEN list ELSE Append(list, x)

\* the characters of s that are not in cls: re.sub(r"[cls]", "", s)
RECURSIVE RemoveChars(_, _)
RemoveChars(s, cls) ==
    IF s = "" THEN ""
    ELSE (IF Ch(s, 1) \in cls THEN "" ELSE Ch(s, 1))
         \o RemoveChars(SubSeq(s, 2, Len(s)), cls)

\* the characters of s that are in cls: re.sub(r"[^cls]", "", s)
RECURSIVE KeepChars(_, _)
KeepChars(s, cls) ==
    IF s = "" THEN ""
    ELSE (IF Ch(s, 1) \in cls THEN Ch(s, 1) ELSE "")
         \o KeepChars(SubSeq(s, 2, Len(s)), cls)

\* str.rstrip(chars)
RECURSIVE rstrip(_, _)
rstrip(s, chars) ==
    IF s # "" /\ Ch(s, Len(s)) \in chars
    THEN rstrip(SubSeq(s, 1, Len(s) - 1), chars)
    ELSE s

\* str.lstrip(chars)
RECURSIVE lstrip(_, _)
lstrip(s, chars) ==
    IF s # "" /\ Ch(s, 1) \in chars
    THEN lstrip(SubSeq(s, 2, Len(s)), chars)
    ELSE s

\* str.strip()
strip(s) == rstrip(lstrip(s, Whitespace), Whitespace)

\* s[-10:]
Last10(s) == IF Len(s) <= 10 THEN s ELSE SubSeq(s, Len(s) - 9, Len(s))

\* step 1 assigning the matches of the text instead of appending them
AddEmails_Replace(emails, matches, k) == matches

\* 1. Emails: every match not yet in the list is appended
RECURSIVE AddEmails(_, _, _)
AddEmails(emails, matches, k) ==
    IF k > Len(matches) THEN emails
    ELSE AddEmails(AppendIfNew(emails, matches[k]), matches, k + 1)

\* 2. UPI IDs: a match is skipped when it occurs inside a recorded email
RECURSIVE AddUpiIds(_, _, _, _)
AddUpiIds(upis, emails, matches, k) ==
    IF k > Len(matches) THEN upis
    ELSE LET match == matches[k]
             is_email == \E e \in 1..Len(emails) : Contains(emails[e], match)
         IN  AddUpiIds(IF ~InList(match, upis) /\ ~is_email
                       THEN Append(upis, match) ELSE upis,
                       emails, matches, k + 1)

\* 3. Phone numbers: the cleaned form, then the original form if it differs
RECURSIVE AddPhones(_, _, _)
AddPhones(phones, matches, k) ==
    IF k > Len(matches) THEN phones
    ELSE LET original == strip(matches[k])
             clean == RemoveChars(original, Whitespace \cup {"-"})
             p1 == AppendIfNew(phones, clean)
             p2 == IF original # clean THEN AppendIfNew(p1, original) ELSE p1
         IN  AddPhones(p2, matches, k + 1)

\* 4. URLs: trailing punctuation stripped
RECURSIVE AddUrls(_, _, _)
AddUrls(links, matches, k) ==
    IF k > Len(matches) THEN links
    ELSE AddUrls(AppendIfNew(links,
                    rstrip(matches[k], {".", ",", ";", ":", "!", "?", ")"})),
                 matches, k + 1)

\* 5. the digit string of a recorded phone and its last ten digits
DigitForms(digits) == {digits, Last10(digits)}

\* step 5 with no phone digits to compare with
phone_digits_None(phones) == {}

\* 5. phone_digits: the digit forms of all recorded phones
phone_digits(phones) ==
    UNION {DigitForms(KeepChars(phones[k], Digits)) : k \in 1..Len(phones)}

\* step 5 without the test  match not in intel["bankAccounts"]
RECURSIVE AddBankAccounts_NoSeenTest(_, _, _, _)
AddBankAccounts_NoSeenTest(accounts, digits, matches, k) ==
    IF k > Len(matches) THEN accounts
    ELSE AddBankAccounts_NoSeenTest(
            IF matches[k] \notin digits
            THEN Append(accounts, matches[k]) ELSE accounts,
            digits, matches, k + 1)

\* 5. Bank accounts: a run is skipped when it is a recorded phone's digits
RECURSIVE AddBankAccounts(_, _, _, _)
AddBankAccounts(accounts, digits, matches, k) ==
    IF k > Len(matches) THEN accounts
    ELSE AddBankAccounts(
            IF ~InList(matches[k], accounts) /\ matches[k] \notin digits
            THEN Append(accounts, matches[k]) ELSE accounts,
            digits, matches, k + 1)

\* 6. Suspicious keywords, in the order of SCAM_KEYWORDS: every keyword of
\* the casefolded text not yet in the list is appended.  The entries of
\* SCAM_KEYWORDS are distinct, so a keyword is appended at most once.
AddKeywords(found, text) ==
    found \o SelectSeq(keywords_in(text), LAMBDA kw : ~InList(kw, found))

\* steps 2, 5 and 6, which read the emails and phones recorded by steps 1
\* and 3, and the evidence record after the call
ExtractRest(text, intel, emails, phones) ==
    [bankAccounts |-> AddBankAccounts(intel.bankAccounts, phone_digits(phones),
                                      findall("bank_account", text), 1),
     upiIds |-> AddUpiIds(intel.upiIds, emails, findall("upi", text), 1),
     phishingLinks |-> AddUrls(intel.phishingLinks, findall("url", text), 1),
     phoneNumbers |-> phones,
     emailAddresses |-> emails,
     suspiciousKeywords |-> AddKeywords(intel.suspiciousKeywords, text)]

\* extract_intelligence(text, session): the evidence record after the call
extract_intelligence(text, intel) ==
    ExtractRest(text, intel,
                AddEmails(intel.emailAddresses, findall("email", text), 1),
                AddPhones(intel.phoneNumbers, findall("phone", text), 1))

\* the evidence record of a new session
EmptyIntel ==
    [bankAccounts |-> <<>>, upiIds |-> <<>>, phishingLinks |-> <<>>,
     phoneNumbers |-> <<>>, emailAddresses |-> <<>>,
     suspiciousKeywords |-> <<>>]

(***************************************************************************)
(* Fallback replies and LLM output sanitisation                            *)
(* (src/src/config.py, src/src/honeypot_agent.py)                          *)
(***************************************************************************)

\* The em dash of two of the replies is written "-" here.
NAIVE_RESPONSES == <<
    "Haan ji? Kaun bol raha hai? Aapka phone number kya hai... main call back karungi verify karne ke liye?",
    "Arey arey... blocked matlab? Aap pakka bank se ho? Aapka direct number do na, main khud call karungi.",
    "Acha acha... par kahan bhejoon paisa? Woh UPI ID phir se bolo na slowly... likhti hoon... @ ke baad kya aata hai?",
    "Account number chahiye aapko? Woh passbook mein likha hai... par pehle aapka account number bolo jismein bhejoon? IFSC code bhi dena.",
    "Woh link wala message phir se bhejo... phone pe chhota likha hai dikha nahi. Pura URL bolo na http se?",
    "Email pe bhej do details beta... mera beta padhega. Aapka email ID kya hai? Gmail hai ya office wala?",
    "Haan haan main bhejti hoon... par UPI ID kya tha aapka? Woh @ wala phir se bolo na? Aur phone number bhi do backup ke liye.",
    "Aap branch ka phone number do na... landline hoga na? Aur woh website ka link bhi bhejo, main beta se check karwaungi.",
    "Theek hai... aapka website kya hai? Link bhejo WhatsApp pe. Aur email bhi do, main documents forward karungi.",
    "Padosan fraud fraud bol rahi thi... aapka official email bhejo, phone number do, aur UPI ID bhi - mera beta sab verify karega.",
    "Main confuse ho gayi... ek kaam karo - apna phone number, UPI ID, aur bank account number sab ek saath bol do. Main likh leti hoon.",
    "Arey sun nahi paya... woh link phir se bolo? Aur email pe bhi bhej do. Mera beta aayega toh check karega." >>

SUSPICION_REPLIES == <<
    "Ji? Kaun bol raha hai? Pehchaan nahi aaya...",
    "Hello? Haan ji, kaun?",
    "Arey, kaun hai? Kya baat hai?",
    "Ji haan, boliye? Aap kaun bol rahe ho?",
    "Hello? Aap kaun? Main samajh nahi paayi...",
    "Ji? Kya hua? Aap kaun bol rahe ho?" >>

FORBIDDEN_PATTERNS == {
    "the user", "the scammer", "user wants", "scammer wants",
    "training data", "output format", "instructions",
    "i will", "i need to", "let me", "i should",
    "as an ai", "as a language model", "i'm an ai",
    "the victim", "the agent", "honeypot",
    "generate", "scenario", "realistic", "respond with",
    "here is", "here's the", "the response",
    "i am calling from", "this is bank", "i am from bank",
    "we need your", "please provide your", "share your" }

\* the fixed replies of the handler
NEUTRAL_REPLY == "Hello. How can I help you?"

CLOSING_REPLY == "Acha beta, main baad mein baat karti hoon. Abhi mujhe kaam hai."

\* What one call of the external generator yields: LlmUnavailable when the
\* client is missing or the call raises, otherwise the generated text.
LlmUnavailable == [kind |-> "unavailable"]

LlmText(text) == [kind |-> "text", text |-> text]

\* the fallback always taking the first reply of the rotation
get_agent_response_First(session) == NAIVE_RESPONSES[1]

\* get_agent_response: the fallback rotation, indexed by the turn counter
get_agent_response(session) ==
    NAIVE_RESPONSES[(session.messages_exchanged % Len(NAIVE_RESPONSES)) + 1]

\* the sanitisation without its last test, that the reply is not empty
Sanitise_NoEmptyTest(session, reply, reply_lower) ==
    IF \E pattern \in FORBIDDEN_PATTERNS : Contains(reply_lower, pattern)
    THEN get_agent_response(session)
    ELSE IF Len(reply) > 400 THEN get_agent_response(session)
    ELSE reply

\* honeypot_agent.py 317-327: the sanitisation of a generated reply
Sanitise(session, reply, reply_lower) ==
    IF \E pattern \in FORBIDDEN_PATTERNS : Contains(reply_lower, pattern)
    THEN get_agent_response(session)
    ELSE IF Len(reply) > 400 THEN get_agent_response(session)
    ELSE IF reply # "" THEN reply
    ELSE get_agent_response(session)

\* the stripped reply, then its sanitisation
SanitiseStripped(session, reply) == Sanitise(session, reply, casefold(reply))

\* get_llm_response: the generated text, or the fallback when the generator
\* is unavailable or its output is forbidden, overlong or empty
get_llm_response(session, llm) ==
    IF llm.kind # "text" THEN get_agent_response(session)
    ELSE SanitiseStripped(session, strip(llm.text))

(***************************************************************************)
(* Session store and phase state machine (src/src/honeypot_agent.py)       *)
(***************************************************************************)

\* The record get_session creates.  persona_name, persona_prompt and the two
\* wall-clock times are left out: no modelled decision reads them.
NewSession ==
    [messages_exchanged |-> 0,
     scam_detected |-> FALSE,
     state |-> "trust_building",
     extracted_intelligence |-> EmptyIntel,
     red_flags |-> <<>>,
     callback_sent |-> FALSE,
     conversation |-> <<>>]

\* get_session on a store that keeps only the session referred to
get_session_Evicting(store, session_id) ==
    [id \in {session_id} |->
        IF id \in DOMAIN store THEN store[id] ELSE NewSession]

\* get_session without its membership test: every reference starts over
get_session_Fresh(store, session_id) ==
    [id \in DOMAIN store \cup {session_id} |->
        IF id = session_id THEN NewSession ELSE store[id]]

\* get_session: the store after the call (the record is store[session_id])
get_session(store, session_id) ==
    IF session_id \in DOMAIN store THEN store
    ELSE [id \in DOMAIN store \cup {session_id} |->
            IF id = session_id THEN NewSession ELSE store[id]]

\* transition_state with the labels of its first two ranges exchanged
transition_state_Swapped(session) ==
    LET n == session.messages_exchanged
    IN  [session EXCEPT !.state =
            IF n <= 2 THEN "probing"
            ELSE IF n <= 5 THEN "trust_building"
            ELSE IF n <= 8 THEN "extraction"
            ELSE "winding_down"]

\* transition_state: the phase recomputed from the turn counter
transition_state(session) ==
    LET n == session.messages_exchanged
    IN  [session EXCEPT !.state =
            IF n <= 2 THEN "trust_building"
            ELSE IF n <= 5 THEN "probing"
            ELSE IF n <= 8 THEN "extraction"
            ELSE "winding_down"]

\* The five directives of get_phase_instruction, each named by its opening
\* sentence (the texts are distinct and fixed).
PHASE_INSTRUCTIONS ==
    <<"You just received this call/message from a STRANGER. ",
      "You are starting to understand what they want. Show mild ",
      "You are now somewhat engaged and starting to worry/believe. ",
      "You are ready to comply but need ALL their details first. ",
      "You are getting doubtful. Your son/neighbour is warning about fraud. ">>

\* get_phase_instruction: the directive of the turn about to happen, chosen
\* by the turn counter; neither the state field nor the evidence is read
get_phase_instruction(session) ==
    LET turn == session.messages_exchanged + 1
    IN  IF turn <= 1 THEN PHASE_INSTRUCTIONS[1]
        ELSE IF turn <= 3 THEN PHASE_INSTRUCTIONS[2]
        ELSE IF turn <= 6 THEN PHASE_INSTRUCTIONS[3]
        ELSE IF turn <= 8 THEN PHASE_INSTRUCTIONS[4]
        ELSE PHASE_INSTRUCTIONS[5]

(***************************************************************************)
(* The POST /api/honeypot handler (src/src/main.py)                        *)
(***************************************************************************)

\* the accumulation without the test  flag not in red_flags
AddRedFlags_NoSeenTest(red_flags, flags, k) == red_flags \o flags

\* for flag in flags: if flag not in red_flags: red_flags.append(flag)
RECURSIVE AddRedFlags(_, _, _)
AddRedFlags(red_flags, flags, k) ==
    IF k > Len(flags) THEN red_flags
    ELSE AddRedFlags(AppendIfNew(red_flags, flags[k]), flags, k + 1)

\* The three loops over conversationHistory below run over the entries
\* lo..hi in order; a range of several entries is run as its first half and
\* then, from the result of the first half, its second half.

\* extract_intelligence_from_history: every entry with a text is extracted
RECURSIVE extract_intelligence_from_history(_, _, _, _)
extract_intelligence_from_history(history, intel, lo, hi) ==
    IF lo > hi THEN intel
    ELSE IF lo = hi
    THEN IF history[lo].text # ""
         THEN extract_intelligence(history[lo].text, intel) ELSE intel
    ELSE CHOOSE after \in
            {extract_intelligence_from_history(history, half,
                                               (lo + hi) \div 2 + 1, hi) :
                half \in {extract_intelligence_from_history(
                              history, intel, lo, (lo + hi) \div 2)}} : TRUE

\* main.py 329-338: detection and red flags over every history entry.  The
\* handler calls detect_scam(text) with the default turn, 1.
RECURSIVE ScanHistory(_, _, _, _)
ScanHistory(session, history, lo, hi) ==
    IF lo > hi THEN session
    ELSE IF lo = hi
    THEN LET text == history[lo].text
         IN  IF text = "" THEN session
             ELSE [session EXCEPT
                     !.scam_detected =
                         IF ~session.scam_detected
                         THEN detect_scam(text, 1) ELSE TRUE,
                     !.red_flags =
                         AddRedFlags(session.red_flags,
                                     identify_red_flags(text), 1)]
    ELSE CHOOSE after \in
            {ScanHistory(half, history, (lo + hi) \div 2 + 1, hi) :
                half \in {ScanHistory(session, history,
                                      lo, (lo + hi) \div 2)}} : TRUE

\* main.py 341-350: a scammer entry opens a log entry; a user entry fills the
\* reply of the last log entry, if any, and counts one turn
RECURSIVE SeedConversation(_, _, _, _)
SeedConversation(session, history, lo, hi) ==
    IF lo > hi THEN session
    ELSE IF lo = hi
    THEN LET sender == history[lo].sender
             text == history[lo].text
             conv == session.conversation
         IN  IF sender = "scammer"
             THEN [session EXCEPT !.conversation =
                      Append(conv, [scammer |-> text, agent |-> ""])]
             ELSE IF sender = "user"
             THEN [session EXCEPT
                     !.conversation =
                         IF conv # <<>>
                         THEN [conv EXCEPT ![Len(conv)].agent = text]
                         ELSE conv,
                     !.messages_exchanged = @ + 1]
             ELSE session
    ELSE CHOOSE after \in
            {SeedConversation(half, history, (lo + hi) \div 2 + 1, hi) :
                half \in {SeedConversation(session, history,
                                           lo, (lo + hi) \div 2)}} : TRUE

\* main.py 340: the log is seeded only while the turn counter is zero
SeedOnFirstCall(session, history) ==
    IF session.messages_exchanged = 0
    THEN SeedConversation(session, history, 1, Len(history))
    ELSE session

\* main.py 327-350: what a non-empty conversationHistory does to the session
ApplyHistory(session, history) ==
    IF history = <<>> THEN session
    ELSE SeedOnFirstCall(
            ScanHistory([session EXCEPT !.extracted_intelligence =
                            extract_intelligence_from_history(
                                history, @, 1, Len(history))],
                        history, 1, Len(history)),
            history)

\* send_callback without its first statement: the flag is never set
send_callback_NoFlag(session) == session

\* send_callback: the flag is set before the POST is attempted
send_callback(session) == [session EXCEPT !.callback_sent = TRUE]

\* the payload send_callback posts (the fields the claims read), with the
\* content the session has when the POST is issued
CallbackPayload(session_id, session) ==
    [sessionId |-> session_id,
     scamDetected |-> session.scam_detected,
     totalMessagesExchanged |-> session.messages_exchanged,
     extractedIntelligence |-> session.extracted_intelligence,
     redFlagsIdentified |-> session.red_flags]

\* step 1 without its guard: the flag is recomputed from every message
DetectStep_Unguarded(session, message) ==
    [session EXCEPT !.scam_detected = detect_scam(message, 1)]

\* main.py 357-359, step 1: detect_scam is called with the default turn, 1
DetectStep(session, message) ==
    IF ~session.scam_detected
    THEN [session EXCEPT !.scam_detected = detect_scam(message, 1)]
    ELSE session

\* step 2 left out
ExtractStep_Skipped(session, message) == session

\* main.py 361-362, step 2
ExtractStep(session, message) ==
    [session EXCEPT !.extracted_intelligence = extract_intelligence(message, @)]

\* main.py 364-367, step 3
RedFlagStep(session, message) ==
    [session EXCEPT !.red_flags =
        AddRedFlags(@, identify_red_flags(message), 1)]

\* main.py 369-379, step 4: the reply, and the promotion to detected on two
\* keyword hits.  pick is random.choice's index.
GenerateResponse(session, message, llm, pick) ==
    IF session.scam_detected
    THEN [session |-> session, reply |-> get_llm_response(session, llm)]
    ELSE IF keyword_hits(message) >= 1
    THEN [session |-> IF keyword_hits(message) >= 2
                      THEN [session EXCEPT !.scam_detected = TRUE]
                      ELSE session,
          reply |-> SUSPICION_REPLIES[pick]]
    ELSE [session |-> session, reply |-> get_agent_response(session)]

\* main.py 357-367: steps 1 to 3 on a non-empty message
DetectExtractFlag(session, message) ==
    RedFlagStep(ExtractStep(DetectStep(session, message), message), message)

\* what the generator may yield when step 4 calls it
LlmOutputs == {LlmUnavailable, LlmText("Haan ji, boliye?"),
               LlmText("As an AI, I will help"), LlmText(" ")}

\* Step 4 calls the generator only for a detected session, and
\* random.choice only for the suspicion reply.
LlmCalls(session, generator) ==
    IF session.scam_detected THEN generator ELSE {LlmUnavailable}

PickCalls(session, message) ==
    IF ~session.scam_detected /\ keyword_hits(message) >= 1
    THEN 1..Len(SUSPICION_REPLIES) ELSE {1}

\* UpdateSession without the append to the conversation log
UpdateSession_NoLog(session, message, reply) ==
    transition_state([session EXCEPT !.messages_exchanged = @ + 1])

\* UpdateSession without the increment of the turn counter
UpdateSession_NoCount(session, message, reply) ==
    [transition_state(session)
        EXCEPT !.conversation = Append(@, [scammer |-> message, agent |-> reply])]

\* main.py 381-388, step 5
UpdateSession(session, message, reply) ==
    [transition_state([session EXCEPT !.messages_exchanged = @ + 1])
        EXCEPT !.conversation = Append(@, [scammer |-> message, agent |-> reply])]

\* step 6 without the floor: the report sent on every turn of a detected
\* session
CallbackDue_NoFloor(session) == session.scam_detected

\* step 6 guarded by callback_sent: the report sent once only
CallbackDue_Once(session) ==
    /\ session.scam_detected
    /\ session.messages_exchanged >= MIN_MESSAGES
    /\ ~session.callback_sent

\* main.py 392-395, step 6: the report is sent when the session is detected
\* and has reached MIN_MESSAGES turns
CallbackDue(session) ==
    session.scam_detected /\ session.messages_exchanged >= MIN_MESSAGES

\* the hard cap met one turn late
HardCapReached_Late(session) == session.messages_exchanged > MAX_MESSAGES

\* main.py 301: the hard cap is a test of the turn counter alone
HardCapReached(session) == session.messages_exchanged >= MAX_MESSAGES

\* HardCapCallbackDue without its callback_sent guard: the hard cap would
\* send the report on every request of a detected session
HardCapCallbackDue_Unguarded(session) == session.scam_detected

\* the hard cap never sending the report
HardCapCallbackDue_Never(session) == FALSE

\* main.py 308: at the hard cap the report is sent if not yet sent
HardCapCallbackDue(session) ==
    session.scam_detected /\ ~session.callback_sent

\* what the POST of send_callback may come to: an HTTP response, or an
\* exception that send_callback catches and reports as "FAILED: ..."
PostOutcomes == {"POST -> HTTP 200", "FAILED"}

VARIABLES
    sessions,   \* the session store: session id -> session record
    callbacks,  \* the payloads send_callback has posted, in order
    awaiting,   \* the bag of handlers suspended in the POST of send_callback
    request,    \* the request whose handler started last
    response,   \* the response returned last
    nreq,       \* the number of requests received
    call        \* the last direct call of a function of the engine

vars == <<sessions, callbacks, awaiting, request, response, nreq, call>>

NoRequest == [sessionId |-> "", message |-> "", conversationHistory |-> <<>>]

NoResponse == [status |-> "", reply |-> "", callbackSent |-> "None"]

NoCall == [fn |-> "none"]

Init ==
    /\ sessions = <<>>
    /\ callbacks = <<>>
    /\ awaiting = EmptyBag
    /\ request = NoRequest
    /\ response = NoResponse
    /\ nreq = 0
    /\ call = NoCall

\* HoneypotResponse: the fields the claims read.  callbackSent is "None" for
\* Python's None.
HoneypotResponse(reply, callbackSent) ==
    [status |-> "success", reply |-> reply, callbackSent |-> callbackSent]

\* a handler suspended at  await send_callback(...) : the session it serves,
\* the reply it will return, and whether it took the hard-cap branch
Suspended(session_id, reply, at_cap) ==
    [sessionId |-> session_id, reply |-> reply, at_cap |-> at_cap]

\* The handler on one request, up to its return or, when it sends the report,
\* up to the await of the POST inside send_callback (the one point at which
\* it yields to other requests).  message_text is the request's message
\* text, conversationHistory its list of [sender, text] entries.  After the
\* await the handler writes nothing to the session.  generator is the set of
\* what the text generator may yield when step 4 calls it.
honeypot(session_id, message_text, conversationHistory, generator) ==
    /\ request' = [sessionId |-> session_id, message |-> message_text,
                   conversationHistory |-> conversationHistory]
    /\ nreq' = nreq + 1
    /\ call' = call
    /\ \E store \in {get_session(sessions, session_id)} :
       \E session \in {store[session_id]} :
         IF HardCapReached(session)
         THEN \* hard cap
              IF HardCapCallbackDue(session)
              THEN /\ sessions' = [store EXCEPT
                                     ![session_id] = send_callback(session)]
                   /\ callbacks' =
                        Append(callbacks,
                               CallbackPayload(session_id,
                                               send_callback(session)))
                   /\ awaiting' =
                        awaiting (+) SetToBag(
                            {Suspended(session_id, CLOSING_REPLY, TRUE)})
                   /\ response' = response
              ELSE /\ sessions' = store
                   /\ callbacks' = callbacks
                   /\ awaiting' = awaiting
                   /\ response' =
                        HoneypotResponse(CLOSING_REPLY,
                                         IF session.callback_sent
                                         THEN "Already sent" ELSE "None")
         ELSE \E message \in {strip(message_text)} :
              \E s1 \in {ApplyHistory(session, conversationHistory)} :
                IF message = ""
                THEN /\ sessions' = [store EXCEPT ![session_id] = s1]
                     /\ callbacks' = callbacks
                     /\ awaiting' = awaiting
                     /\ response' = HoneypotResponse(NEUTRAL_REPLY, "None")
                ELSE \E d \in {DetectExtractFlag(s1, message)} :
                     \E llm \in LlmCalls(d, generator), pick \in PickCalls(d, message) :
                     \E r \in {GenerateResponse(d, message, llm, pick)} :
                     \E s2 \in {UpdateSession(r.session, message, r.reply)} :
                       IF CallbackDue(s2)
                       THEN /\ sessions' = [store EXCEPT
                                              ![session_id] = send_callback(s2)]
                            /\ callbacks' =
                                 Append(callbacks,
                                        CallbackPayload(session_id,
                                                        send_callback(s2)))
                            /\ awaiting' =
                                 awaiting (+) SetToBag(
                                     {Suspended(session_id, r.reply, FALSE)})
                            /\ response' = response
                       ELSE /\ sessions' = [store EXCEPT ![session_id] = s2]
                            /\ callbacks' = callbacks
                            /\ awaiting' = awaiting
                            /\ response' = HoneypotResponse(r.reply, "None")

\* The POST of the suspended handler h completes with the outcome, and the
\* handler returns its response: at the hard cap callbackSent is "Already
\* sent" (main.py 316, callback_sent is true by then), on a processed turn it
\* is the status string of send_callback (main.py 395, 422).
post_completes(h, outcome) ==
    /\ BagIn(h, awaiting)
    /\ awaiting' = awaiting (-) SetToBag({h})
    /\ response' = HoneypotResponse(h.reply,
                                    IF h.at_cap THEN "Already sent" ELSE outcome)
    /\ UNCHANGED <<sessions, callbacks, request, nreq, call>>

\* some suspended handler resumes
PostCompletes ==
    \E h \in BagToSet(awaiting), outcome \in PostOutcomes :
        post_completes(h, outcome)

\* validation_exception_handler (main.py 198-201): a body that does not
\* parse as a HoneypotRequest never reaches the handler; the answer is the
\* success envelope with the neutral reply, and no session is touched.
validation_exception_handler ==
    /\ request' = NoRequest
    /\ nreq' = nreq + 1
    /\ response' = HoneypotResponse(NEUTRAL_REPLY, "None")
    /\ UNCHANGED <<sessions, callbacks, awaiting, call>>

(***************************************************************************)
(* Requests and specifications                                             *)
(***************************************************************************)

SessionIds == {"s1"}

\* a conversationHistory entry
Entry(sender, text) == [sender |-> sender, text |-> text]

\* k earlier turns replayed as history: the scammer's text, then our reply
RECURSIVE Turns(_, _)
Turns(k, text) ==
    IF k = 0 THEN <<>>
    ELSE Turns(k - 1, text) \o <<Entry("scammer", text),
                                 Entry("user", AGENT_TEXT)>>

\* Spec: conversations of plain and scam messages, with replayed histories
\* of several lengths
Messages == {"", BENIGN, SCAM}

SeedTurns == {0, 4, 10}

Histories ==
    {Turns(k, text) : k \in SeedTurns, text \in {BENIGN, SCAM}}
        \cup {<<Entry("scammer", SCAM)>>, <<Entry("user", AGENT_TEXT)>>}

MaxRequests == 3

Next ==
    \/ \E session_id \in SessionIds, m \in Messages, h \in Histories :
        /\ nreq < MaxRequests
        /\ honeypot(session_id, m, h, LlmOutputs)
    \/ nreq < MaxRequests /\ validation_exception_handler
    \/ PostCompletes

Spec == Init /\ [][Next]_vars

\* SpecIntel: messages and short histories that carry identifiers, served
\* without GROQ_API_KEY (groq_client stays None)
NoGenerator == {LlmUnavailable}

IntelMessages == {""} \cup (IntelTexts \ {TEXT_PHONE_SPACE})

IntelHistories ==
    {<<>>, <<Entry("scammer", TEXT_ACCOUNT), Entry("user", TEXT_PHONE_SPACE)>>
              \o Turns(1, BENIGN)}

MaxIntelRequests == 3

NextIntel ==
    \/ \E session_id \in SessionIds, m \in IntelMessages, h \in IntelHistories :
        /\ nreq < MaxIntelRequests
        /\ honeypot(session_id, m, h, NoGenerator)
    \/ PostCompletes

SpecIntel == Init /\ [][NextIntel]_vars

\* SpecDetect: conversations of live messages with weak or no scam signal,
\* without replayed history
DetectMessages == {" ", BENIGN, RED_FLAG_ONLY, ONE_KEYWORD}

MaxDetectRequests == 5

NextDetect ==
    \/ \E session_id \in SessionIds, m \in DetectMessages :
        /\ nreq < MaxDetectRequests
        /\ honeypot(session_id, m, <<>>, LlmOutputs)
    \/ PostCompletes

SpecDetect == Init /\ [][NextDetect]_vars

\* SpecEcho: a caller that sends back, as conversationHistory, the turn it
\* had with the honeypot: its own benign text and the honeypot's reply to it
\* (sender "user"), as src/test.py 129-135 does
EchoMessages == {"", BENIGN}

EchoHistories ==
    {<<>>, <<Entry("scammer", BENIGN), Entry("user", NAIVE_RESPONSES[1])>>}

MaxEchoRequests == 5

NextEcho ==
    \/ \E session_id \in SessionIds, m \in EchoMessages, h \in EchoHistories :
        /\ nreq < MaxEchoRequests
        /\ honeypot(session_id, m, h, NoGenerator)
    \/ PostCompletes

SpecEcho == Init /\ [][NextEcho]_vars

\* SpecPair: two correspondents, each with its own session identifier
PairIds == {"s1", "s2"}

PairMessages == {"", SCAM}

PairHistories == {<<>>, Turns(4, SCAM)}

MaxPairRequests == 3

NextPair ==
    \/ \E session_id \in PairIds, m \in PairMessages, h \in PairHistories :
        /\ nreq < MaxPairRequests
        /\ honeypot(session_id, m, h, NoGenerator)
    \/ PostCompletes

SpecPair == Init /\ [][NextPair]_vars

(***************************************************************************)
(* The single-file program (src/api.py): its own constants, detector,      *)
(* extractor, session store and handler; the report is a background task   *)
(***************************************************************************)

api_MIN_MESSAGES == 8

api_MAX_MESSAGES == 20

api_SCAM_KEYWORDS == <<
    "urgent", "blocked", "suspended", "verify", "otp", "kyc", "pan",
    "aadhaar", "account", "bank", "upi", "transfer", "payment",
    "immediately", "click", "link", "update", "expire", "freeze",
    "lottery", "prize", "winner", "won", "congratulations", "claim",
    "lakh", "crore", "rupees", "jackpot", "lucky", "draw",
    "police", "arrest", "court", "legal", "case", "crime", "fraud",
    "refund", "cashback", "reward", "bonus", "offer", "limited" >>

api_NAIVE_RESPONSES == <<
    "Haan ji? Kaun bol raha hai? Mera account ka kya hua... mujhe toh koi message nahi aaya?",
    "Arey arey... blocked matlab? Aap pakka bank se ho?",
    "Acha acha... par aapka naam kya hai? Likhna padega na mujhe... pen dhundhti hoon ruko...",
    "Haan haan samajh rahi hoon... woh KYC KYC kya hota hai exactly?",
    "Kaun se branch se bol rahe ho? Manager ka naam kya hai wahan?",
    "Ek minute... chasma lagati hoon... phone pe chhota likha hai sab... haan bolo?",
    "PhonePe? Haan hai mere paas... par usme kya karna hai exactly?",
    "OTP aata hai na green color wala message mein? Ruko ruko check karti hoon...",
    "Matlab main woh app wala open karoon? Haan kar rahi hoon... thoda slow hai phone...",
    "Woh link wala message bheja aapne? Ruko dekhti hoon... yeh theek hai na?",
    "Haan haan main bhejti hoon... par kahan bhejoon? Woh UPI ID phir se bolo na slowly...",
    "Pension aata hai mahine ka... uska kuch nahi hoga na? FD mein bhi hai thoda...",
    "Account number chahiye aapko? Woh passbook mein likha hai na... ruko lati hoon...",
    "Arey itni jaldi kyun? Kal nahi ho sakta?",
    "Theek hai theek hai... aap woh number phir se bolo na? Likhti hoon...",
    "Ek baat batao... agar aap bank se ho toh mera account number toh aapke paas hoga na?",
    "Padosan bol rahi thi ki aajkal bahut fraud hota hai... aap toh real ho na?",
    "Haan haan kar rahi hoon... bas ek minute... battery kam hai phone ki...",
    "Acha aap branch ka number do main khud call karke confirm karti hoon...",
    "Main complaint likhi hai... aapka ID number kya tha? Naam phir se bolo na?" >>

api_SUSPICION_REPLIES == <<
    "Ji? Kaun bol raha hai? Mujhe koi message toh nahi aaya bank se...",
    "Haan ji? Mera account ka kya hua? Aap kaun ho?",
    "Arey? Bank se ho? Par bank toh kabhi phone nahi karta... aap pakka bank se ho?",
    "Kya bol rahe ho? Account block? Abhi toh sab theek tha... aapka naam kya hai?",
    "Hello? Kaun bol raha hai? Kaunsa bank? Mujhe toh koi message nahi aaya..." >>

\* the fixed replies of the handler of src/api.py
API_GOODBYE == "Thank you for calling. Goodbye."

API_GREETING == "Hello. How can I help you today?"

\* The session get_session of src/api.py creates: no red_flags, no
\* emailAddresses.  persona_name, persona_prompt and last_activity are left
\* out: no modelled decision reads them.
api_NewSession ==
    [messages_exchanged |-> 0,
     scam_detected |-> FALSE,
     state |-> "trust_building",
     extracted_intelligence |->
        [bankAccounts |-> <<>>, upiIds |-> <<>>, phishingLinks |-> <<>>,
         phoneNumbers |-> <<>>, suspiciousKeywords |-> <<>>],
     callback_sent |-> FALSE,
     conversation |-> <<>>]

api_get_session(store, session_id) ==
    [id \in DOMAIN store \cup {session_id} |->
        IF id \in DOMAIN store THEN store[id] ELSE api_NewSession]

api_transition_state(session) ==
    LET msg_count == session.messages_exchanged
    IN  [session EXCEPT !.state =
            IF msg_count <= 3 THEN "trust_building"
            ELSE IF msg_count <= 8 THEN "probing"
            ELSE IF msg_count <= 15 THEN "extraction"
            ELSE "winding_down"]

\* sum(len(v) for v in intel.values())
intel_count(intel) ==
    Len(intel.bankAccounts) + Len(intel.upiIds) + Len(intel.phishingLinks)
        + Len(intel.phoneNumbers) + Len(intel.suspiciousKeywords)

should_continue(session) ==
    IF session.callback_sent THEN FALSE
    ELSE IF session.messages_exchanged >= api_MAX_MESSAGES THEN FALSE
    ELSE IF /\ session.messages_exchanged >= api_MIN_MESSAGES
            /\ intel_count(session.extracted_intelligence) >= 3
    THEN FALSE
    ELSE TRUE

\* the keywords of api_SCAM_KEYWORDS that occur in the casefolded text
api_KeywordsIn(text) ==
    SelectSeq(api_SCAM_KEYWORDS, LAMBDA kw : Contains(casefold(text), kw))

api_KeywordTable == [t \in Corpus |-> api_KeywordsIn(t)]

api_keywords_in(text) ==
    IF text \in Corpus THEN api_KeywordTable[text] ELSE api_KeywordsIn(text)

\* detect_scam of src/api.py.  The rupee sign of amount_keywords and
\* financial_keywords is left out: the texts are ASCII.
api_DetectScam(text) ==
    LET text_lower == casefold(text)
        has(words) == \E w \in words : Contains(text_lower, w)
        has_lottery == has({"lottery", "prize", "won", "winner",
                            "congratulations", "claim", "jackpot",
                            "lucky draw"})
        has_amount == has({"lakh", "crore", "rupees", "rs.", "rs ", "inr"})
        has_urgency == has({"urgent", "immediately", "blocked", "suspended",
                            "expire"})
        has_financial == has({"send", "pay", "transfer", "rupees", "amount"})
        hits == (IF Len(api_keywords_in(text)) >= 2 THEN 1 ELSE 0)
                + Cardinality({key \in {"upi", "phone", "url"} :
                                 findall(key, text) # <<>>})
    IN  IF has_lottery /\ has_amount THEN TRUE
        ELSE IF has_urgency /\ has_financial THEN TRUE
        ELSE hits >= 2

api_DetectTable == [t \in Corpus |-> api_DetectScam(t)]

api_detect_scam(text) ==
    IF text \in Corpus THEN api_DetectTable[text] ELSE api_DetectScam(text)

\* for match in matches: if match not in list [and match not in skip]:
\* list.append(match)
RECURSIVE api_AddMatches(_, _, _, _)
api_AddMatches(list, matches, skip, k) ==
    IF k > Len(matches) THEN list
    ELSE api_AddMatches(
            IF InList(matches[k], list) \/ InList(matches[k], skip)
            THEN list ELSE Append(list, matches[k]),
            matches, skip, k + 1)

\* re.sub(r'[\s-]', '', match) on every match
api_CleanPhones(matches) ==
    [k \in 1..Len(matches) |->
        RemoveChars(matches[k], Whitespace \cup {"-"})]

\* extract_intelligence of src/api.py: handles, phones in their cleaned form
\* only, links as matched, digit runs that are not recorded phone numbers,
\* keywords
api_extract_intelligence(text, intel) ==
    LET phones == api_AddMatches(intel.phoneNumbers,
                                 api_CleanPhones(findall("phone", text)),
                                 <<>>, 1)
    IN  [bankAccounts |-> api_AddMatches(intel.bankAccounts,
                                         findall("bank_account", text),
                                         phones, 1),
         upiIds |-> api_AddMatches(intel.upiIds, findall("upi", text),
                                   <<>>, 1),
         phishingLinks |-> api_AddMatches(intel.phishingLinks,
                                          findall("url", text), <<>>, 1),
         phoneNumbers |-> phones,
         suspiciousKeywords |->
            api_AddMatches(intel.suspiciousKeywords, api_keywords_in(text),
                           <<>>, 1)]

api_get_agent_response(session) ==
    api_NAIVE_RESPONSES[
        (session.messages_exchanged % Len(api_NAIVE_RESPONSES)) + 1]

\* get_llm_response of src/api.py: the generated text, stripped, or the
\* fallback when there is no generator or its output is forbidden, longer
\* than 200 characters or empty
api_get_llm_response(session, llm) ==
    IF llm.kind # "text" THEN api_get_agent_response(session)
    ELSE LET reply == strip(llm.text)
         IN  IF \E pattern \in FORBIDDEN_PATTERNS :
                    Contains(casefold(reply), pattern)
             THEN api_get_agent_response(session)
             ELSE IF Len(reply) > 200 THEN api_get_agent_response(session)
             ELSE IF reply # "" THEN reply
             ELSE api_get_agent_response(session)

\* api.py 798-813: one entry of conversationHistory on the first call
api_SeedEntry(session, entry) ==
    IF entry.sender = "scammer"
    THEN [session EXCEPT
            !.conversation = Append(@, [scammer |-> entry.text, agent |-> ""]),
            !.extracted_intelligence = api_extract_intelligence(entry.text, @),
            !.scam_detected = IF @ THEN @ ELSE api_detect_scam(entry.text)]
    ELSE IF entry.sender = "user"
    THEN [session EXCEPT
            !.conversation =
                IF @ # <<>>
                THEN [@ EXCEPT ![Len(@)].agent = entry.text] ELSE @,
            !.messages_exchanged = @ + 1]
    ELSE session

RECURSIVE api_SeedFrom(_, _, _)
api_SeedFrom(session, history, k) ==
    IF k > Len(history) THEN session
    ELSE api_SeedFrom(api_SeedEntry(session, history[k]), history, k + 1)

\* api.py 797-813: the history seeds a session with no turn; the loop's own
\* increments do not end it
api_SeedOnFirstCall(session, history) ==
    IF session.messages_exchanged = 0 /\ history # <<>>
    THEN api_SeedFrom(session, history, 1)
    ELSE session

\* the short-circuit test without the phase: only a report already started
\* ends the session
api_Completed_FlagOnly(session) == session.callback_sent

\* api.py 787: the session is over
api_Completed(session) ==
    session.callback_sent \/ session.state = "terminated"

\* api.py 826-840, steps 1 to 3 on a non-empty message
api_DetectExtract(session, message) ==
    [session EXCEPT
        !.scam_detected = IF @ THEN @ ELSE api_detect_scam(message),
        !.extracted_intelligence = api_extract_intelligence(message, @)]

api_GenerateResponse(session, message, llm, pick) ==
    IF session.scam_detected THEN api_get_llm_response(session, llm)
    ELSE IF Len(api_keywords_in(message)) >= 2 THEN api_SUSPICION_REPLIES[pick]
    ELSE API_GREETING

api_PickCalls(session, message) ==
    IF ~session.scam_detected /\ Len(api_keywords_in(message)) >= 2
    THEN 1..Len(api_SUSPICION_REPLIES) ELSE {1}

\* api.py 842-849, step 4
api_UpdateSession(session, message, reply) ==
    [api_transition_state([session EXCEPT !.messages_exchanged = @ + 1])
        EXCEPT !.conversation = Append(@, [scammer |-> message, agent |-> reply])]

\* api.py 854-858, steps 5 and 6: the session ends and has something to report
api_CallbackDue(session) ==
    ~should_continue(session) /\ session.scam_detected /\ ~session.callback_sent

\* the payload send_callback of src/api.py posts (agentNotes, a sentence
\* made of the same counters, left out)
api_CallbackPayload(session_id, session) ==
    [sessionId |-> session_id,
     scamDetected |-> session.scam_detected,
     totalMessagesExchanged |-> session.messages_exchanged,
     extractedIntelligence |-> session.extracted_intelligence]

\* a background task of the handler: send_callback(session_id, session),
\* "scheduled" by background_tasks.add_task and not yet started, or
\* "posting", suspended in its POST
Task(session_id, stage) == [sessionId |-> session_id, stage |-> stage]

\* The handler of src/api.py on one request.  It has no await: it runs from
\* its first statement to its return without yielding, and the task it adds
\* runs after the response was sent.
api_honeypot(session_id, message_text, conversationHistory, generator) ==
    /\ request' = [sessionId |-> session_id, message |-> message_text,
                   conversationHistory |-> conversationHistory]
    /\ nreq' = nreq + 1
    /\ call' = call
    /\ callbacks' = callbacks
    /\ \E store \in {api_get_session(sessions, session_id)} :
       \E session \in {store[session_id]} :
         IF api_Completed(session)
         THEN /\ sessions' = store
              /\ awaiting' = awaiting
              /\ response' = HoneypotResponse(API_GOODBYE, "None")
         ELSE \E message \in {strip(message_text)} :
              \E s1 \in {api_SeedOnFirstCall(session, conversationHistory)} :
                IF message = ""
                THEN /\ sessions' = [store EXCEPT ![session_id] = s1]
                     /\ awaiting' = awaiting
                     /\ response' = HoneypotResponse(NEUTRAL_REPLY, "None")
                ELSE \E d \in {api_DetectExtract(s1, message)} :
                     \E llm \in LlmCalls(d, generator),
                        pick \in api_PickCalls(d, message) :
                     \E reply \in {api_GenerateResponse(d, message, llm, pick)} :
                     \E s2 \in {api_UpdateSession(d, message, reply)} :
                       /\ response' = HoneypotResponse(reply, "None")
                       /\ IF api_CallbackDue(s2)
                          THEN /\ sessions' =
                                    [store EXCEPT ![session_id] =
                                        [s2 EXCEPT !.state = "terminated"]]
                               /\ awaiting' =
                                    awaiting (+) SetToBag(
                                        {Task(session_id, "scheduled")})
                          ELSE /\ sessions' = [store EXCEPT ![session_id] = s2]
                               /\ awaiting' = awaiting

\* send_callback of src/api.py started as a background task, up to its
\* return or to the await of its POST: it returns at once when callback_sent
\* is set, and otherwise sets it, builds the payload and posts it
api_send_callback(task) ==
    /\ BagIn(task, awaiting)
    /\ task.stage = "scheduled"
    /\ IF sessions[task.sessionId].callback_sent
       THEN /\ awaiting' = awaiting (-) SetToBag({task})
            /\ UNCHANGED <<sessions, callbacks>>
       ELSE /\ sessions' = [sessions EXCEPT
                              ![task.sessionId].callback_sent = TRUE]
            /\ callbacks' =
                 Append(callbacks,
                        api_CallbackPayload(task.sessionId,
                                            sessions'[task.sessionId]))
            /\ awaiting' = (awaiting (-) SetToBag({task}))
                              (+) SetToBag({Task(task.sessionId, "posting")})
    /\ UNCHANGED <<request, response, nreq, call>>

\* the POST of a task completes, with an answer or an exception: both are
\* only logged
api_post_completes(task) ==
    /\ BagIn(task, awaiting)
    /\ task.stage = "posting"
    /\ awaiting' = awaiting (-) SetToBag({task})
    /\ UNCHANGED <<sessions, callbacks, request, response, nreq, call>>

\* SpecApi: two correspondents of the program of src/api.py, with plain and
\* scam messages and a replayed history one turn short of api_MIN_MESSAGES
ApiMessages == {"", BENIGN, SCAM}

ApiHistories == {<<>>, Turns(api_MIN_MESSAGES - 1, SCAM)}

ApiGenerator == {LlmUnavailable, LlmText("Haan ji, boliye?")}

MaxApiRequests == 4

NextApi ==
    \/ \E session_id \in PairIds, m \in ApiMessages, h \in ApiHistories :
        /\ nreq < MaxApiRequests
        /\ api_honeypot(session_id, m, h, ApiGenerator)
    \/ \E task \in BagToSet(awaiting) : api_send_callback(task)
    \/ \E task \in BagToSet(awaiting) : api_post_completes(task)

SpecApi == Init /\ [][NextApi]_vars

\* SpecFn: one direct call of a function of the engine on a fresh engine,
\* its arguments drawn from bounded sets
DetectTexts == {BENIGN, SCAM, AGENT_TEXT} \cup IntelTexts \cup SignalTexts

DetectTurns == 0..4

\* s repeated n times, built by halves
RECURSIVE Repeat(_, _)
Repeat(s, n) ==
    IF n = 0 THEN ""
    ELSE IF n = 1 THEN s
    ELSE Repeat(s, n \div 2) \o Repeat(s, n - n \div 2)

LLM_OK == "Haan ji, boliye?"

LLM_FORBIDDEN == "As an AI, I Will help"

\* the length ceiling of honeypot_agent.py 323
MAX_REPLY_LEN == 400

\* what the generator may yield: no client, an exception, and texts that are
\* empty, blank, acceptable, padded, forbidden, at the ceiling and over it
LlmRaises == [kind |-> "raises"]

LLM_AT_CEILING == Repeat("x", MAX_REPLY_LEN)

LLM_OVERLONG == Repeat("x", MAX_REPLY_LEN + 1)

LLM_PADDED_OVERLONG == LLM_AT_CEILING \o "\n"

LlmCases ==
    {LlmUnavailable, LlmRaises, LlmText(""), LlmText(" \n"),
     LlmText(LLM_OK), LlmText("  " \o LLM_OK \o "\n"),
     LlmText(LLM_FORBIDDEN), LlmText(LLM_AT_CEILING),
     LlmText(LLM_OVERLONG), LlmText(LLM_PADDED_OVERLONG)}

\* the turn counters of the sessions given to get_llm_response: more than
\* one round of the fallback rotation
LlmCounters == 0..(Len(NAIVE_RESPONSES) + 1)

call_extract_intelligence(text) ==
    /\ call = NoCall
    /\ call' = [fn |-> "extract_intelligence", text |-> text,
                result |-> extract_intelligence(text, EmptyIntel)]
    /\ UNCHANGED <<sessions, callbacks, awaiting, request, response, nreq>>

call_detect_scam(text, turn) ==
    /\ call = NoCall
    /\ call' = [fn |-> "detect_scam", text |-> text, turn |-> turn,
                result |-> detect_scam(text, turn)]
    /\ UNCHANGED <<sessions, callbacks, awaiting, request, response, nreq>>

call_get_llm_response(n, llm) ==
    /\ call = NoCall
    /\ call' = [fn |-> "get_llm_response", n |-> n, llm |-> llm,
                result |-> get_llm_response(
                    [NewSession EXCEPT !.messages_exchanged = n,
                                       !.scam_detected = TRUE], llm)]
    /\ UNCHANGED <<sessions, callbacks, awaiting, request, response, nreq>>

\* the turn counters of the sessions given to get_phase_instruction
PhaseCounters == 0..MAX_MESSAGES

\* a session after n processed turns: the state is the phase of the counter
PhaseSession(n) ==
    transition_state([NewSession EXCEPT !.messages_exchanged = n])

call_get_phase_instruction(n) ==
    /\ call = NoCall
    /\ call' = [fn |-> "get_phase_instruction", session |-> PhaseSession(n),
                result |-> get_phase_instruction(PhaseSession(n))]
    /\ UNCHANGED <<sessions, callbacks, awaiting, request, response, nreq>>

NextFn ==
    \/ \E text \in HandleTexts \cup IntelTexts : call_extract_intelligence(text)
    \/ \E text \in DetectTexts, turn \in DetectTurns :
            call_detect_scam(text, turn)
    \/ \E n \in LlmCounters, llm \in LlmCases : call_get_llm_response(n, llm)
    \/ \E n \in PhaseCounters : call_get_phase_instruction(n)

SpecFn == Init /\ [][NextFn]_vars

(***************************************************************************)
(* Reporting (C1)                                                          *)
(***************************************************************************)

\* the reports posted for session sid, among the reports cbs
ReportsOf(cbs, sid) == SelectSeq(cbs, LAMBDA p : p.sessionId = sid)

\* the session exists and has the property, in the store
SentIn(store, sid) == sid \in DOMAIN store /\ store[sid].callback_sent

AtCapIn(store, sid) ==
    sid \in DOMAIN store /\ store[sid].messages_exchanged >= MAX_MESSAGES

C2_CounterIsLogLength ==
    \A sid \in DOMAIN sessions :
        sessions[sid].messages_exchanged = Len(sessions[sid].conversation)

\* the turn counter of sid in the store, 0 for a session not yet created
CounterIn(store, sid) ==
    IF sid \in DOMAIN store THEN store[sid].messages_exchanged ELSE 0

\* the request req processes a message: its text is not empty once stripped
\* and the session is below the hard cap when the request arrives
ProcessesMessage(req) ==
    /\ strip(req.message) # ""
    /\ CounterIn(sessions, req.sessionId) < MAX_MESSAGES

\* the number of history entries of sender "user"
UserEntries(history) ==
    Cardinality({k \in 1..Len(history) : history[k].sender = "user"})

\* the turns the request req replays: the "user" entries of its history when
\* the session arrives with no turn and below the cap
ReplayedTurns(req) ==
    IF CounterIn(sessions, req.sessionId) = 0 THEN UserEntries(req.conversationHistory)
    ELSE 0

\* C3 as stated: a request changes the turn counter by exactly +1 when it
\* processes a non-empty message below the hard cap and by 0 otherwise.
C3_OnePerRequest ==
    [][nreq' = nreq + 1 =>
        CounterIn(sessions', request'.sessionId) =
            CounterIn(sessions, request'.sessionId)
                + (IF ProcessesMessage(request') THEN 1 ELSE 0)]_vars

\* C3 as amended: a request changes the turn counter by the number of turns
\* it replays (the "user" entries of conversationHistory, counted only when
\* the session has no turn yet) plus 1 when it processes a non-empty message
\* below the hard cap, and the counter of no session ever decreases.
C3_ReplayPlusOne ==
    [][/\ nreq' = nreq + 1 =>
            CounterIn(sessions', request'.sessionId) =
                CounterIn(sessions, request'.sessionId)
                    + ReplayedTurns(request')
                    + (IF ProcessesMessage(request') THEN 1 ELSE 0)
       /\ \A sid \in SessionIds :
            CounterIn(sessions', sid) >= CounterIn(sessions, sid)]_vars

\* a request replayed turns and processed a message on top of them
C3_Witness ==
    /\ request.sessionId \in DOMAIN sessions
    /\ UserEntries(request.conversationHistory) >= 2
    /\ strip(request.message) # ""
    /\ nreq = 1
    /\ sessions[request.sessionId].messages_exchanged =
            UserEntries(request.conversationHistory) + 1

(***************************************************************************)
(* Phase (C4, C5)                                                          *)
(***************************************************************************)

\* the phase of a turn count, as the claim states it
PhaseOf(n) ==
    IF n <= 2 THEN "trust_building"
    ELSE IF n <= 5 THEN "probing"
    ELSE IF n <= 8 THEN "extraction"
    ELSE "winding_down"

\* C4: at every request boundary the state field of a session is the phase of
\* its turn counter.
C4_StateIsPhaseOfCounter ==
    \A sid \in DOMAIN sessions :
        sessions[sid].state = PhaseOf(sessions[sid].messages_exchanged)

\* the place of a phase in the order trust_building < probing < extraction <
\* winding_down
PhaseRank(state) ==
    CASE state = "trust_building" -> 1
      [] state = "probing" -> 2
      [] state = "extraction" -> 3
      [] state = "winding_down" -> 4

\* C5: no request moves the phase of a session to an earlier state.
C5_PhaseNeverRegresses ==
    [][\A sid \in DOMAIN sessions :
        PhaseRank(sessions[sid].state) <= PhaseRank(sessions'[sid].state)]_vars

\* a session has advanced through two requests to a later phase
C5_Witness ==
    \E sid \in DOMAIN sessions :
        /\ nreq >= 2
        /\ sessions[sid].state = "extraction"
        /\ request.sessionId = sid
        /\ strip(request.message) # ""

(***************************************************************************)
(* Detection (C6)                                                          *)
(***************************************************************************)

\* C6: once scam_detected is true after a request, no later request resets it.
C6_DetectedIsMonotonic ==
    [][\A sid \in DOMAIN sessions :
        sessions[sid].scam_detected => sessions'[sid].scam_detected]_vars

\* a detected session has processed a message that carries no scam signal
C6_Witness ==
    \E sid \in DOMAIN sessions :
        /\ sessions[sid].scam_detected
        /\ request.sessionId = sid
        /\ request.message = BENIGN
        /\ request.conversationHistory = <<>>
        /\ ~detect_scam(BENIGN, 1)
        /\ Len(sessions[sid].conversation) >= 2
        /\ response.reply # CLOSING_REPLY

(***************************************************************************)
(* Evidence lists (C7, C8, C9, C10), checked under SpecIntel               *)
(***************************************************************************)

EvidenceLists == {"bankAccounts", "upiIds", "phishingLinks", "phoneNumbers",
                  "emailAddresses", "suspiciousKeywords"}

\* a is b cut after Len(a) entries
IsPrefix(a, b) == Len(a) <= Len(b) /\ SubSeq(b, 1, Len(a)) = a

\* C7: the content of every evidence list before a request is a prefix of its
\* content after the request: entries are only appended.
C7_EvidenceOnlyAppended ==
    [][\A sid \in DOMAIN sessions : \A f \in EvidenceLists :
        IsPrefix(sessions[sid].extracted_intelligence[f],
                 sessions'[sid].extracted_intelligence[f])]_vars

\* a session holds evidence gathered by three requests, the last of which
\* carried a text with identifiers
C7_Witness ==
    \E sid \in DOMAIN sessions :
        /\ nreq = 3
        /\ Len(sessions[sid].conversation) = 3
        /\ request.message \in IntelTexts
        /\ Len(sessions[sid].extracted_intelligence.phoneNumbers) >= 2
        /\ Len(sessions[sid].extracted_intelligence.emailAddresses) >= 1
        /\ Len(sessions[sid].extracted_intelligence.phishingLinks) >= 1

\* no string occurs twice in the list
NoDuplicates(list) ==
    \A i, j \in 1..Len(list) : i # j => list[i] # list[j]

\* C8: in every reachable session state no evidence list contains the same
\* string twice.
C8_NoDuplicateEvidence ==
    \A sid \in DOMAIN sessions : \A f \in EvidenceLists :
        NoDuplicates(sessions[sid].extracted_intelligence[f])

\* the same text with two phone numbers in three forms was extracted twice
C8_Witness ==
    \E sid \in DOMAIN sessions :
        /\ Len(sessions[sid].conversation) >= 2
        /\ sessions[sid].conversation[1].scammer = TEXT_PHONE_DASH
        /\ sessions[sid].conversation[2].scammer = TEXT_PHONE_DASH
        /\ Len(sessions[sid].extracted_intelligence.phoneNumbers) >= 3

\* extracting text again from the record once leaves the record once as it is
Unchanged(text, once) == extract_intelligence(text, once) = once

\* C9: for every text and every evidence record a session can hold, applying
\* extract_intelligence a second time with the same text leaves every list
\* as the first application left it.
C9_ExtractionIsIdempotent ==
    \A sid \in DOMAIN sessions : \A text \in IntelTexts :
        Unchanged(text,
            extract_intelligence(text, sessions[sid].extracted_intelligence))

\* a record that already holds evidence and to which a first application of
\* a text adds an account, a phone number or a UPI ID
C9_Witness ==
    \E sid \in DOMAIN sessions : \E text \in IntelTexts :
        /\ sessions[sid].extracted_intelligence.phoneNumbers # <<>>
        /\ sessions[sid].extracted_intelligence.emailAddresses # <<>>
        /\ \E f \in {"bankAccounts", "phoneNumbers", "upiIds"} :
            extract_intelligence(text, sessions[sid].extracted_intelligence)[f]
                # sessions[sid].extracted_intelligence[f]

\* the digit string of a phone entry
DigitsOf(phone) == KeepChars(phone, Digits)

\* C10: no entry of bankAccounts is the digit string of an entry of
\* phoneNumbers, or the last 10 digits of that digit string.
C10_AccountsAreNotPhones ==
    \A sid \in DOMAIN sessions :
        LET intel == sessions[sid].extracted_intelligence
        IN  \A a \in 1..Len(intel.bankAccounts), p \in 1..Len(intel.phoneNumbers) :
                /\ intel.bankAccounts[a] # DigitsOf(intel.phoneNumbers[p])
                /\ intel.bankAccounts[a] # Last10(DigitsOf(intel.phoneNumbers[p]))

(***************************************************************************)
(* Handle and phone number in one text (C11), checked under SpecFn         *)
(***************************************************************************)

\* C11: extracting a text with one payment handle that has no dotted domain
\* and one standalone 10-digit number into empty evidence gives exactly one
\* entry of upiIds (the handle), exactly one entry of phoneNumbers (the ten
\* digits), and no entry of bankAccounts or emailAddresses.
C11_HandleAndPhone ==
    \A c \in HandleCases :
        call.fn = "extract_intelligence" /\ call.text = c.text
            => /\ call.result.upiIds = <<c.handle>>
               /\ call.result.phoneNumbers = <<c.number>>
               /\ call.result.bankAccounts = <<>>
               /\ call.result.emailAddresses = <<>>

\* the text of the scenario has been extracted
C11_Witness ==
    /\ call.fn = "extract_intelligence"
    /\ call.text = "pay to scam@fakebank or call 9876543210"
    /\ call.text \in HandleTexts
    /\ call.result.upiIds = <<"scam@fakebank">>
    /\ call.result.phoneNumbers = <<"9876543210">>

(***************************************************************************)
(* The detector (C12), checked under SpecFn                                *)
(***************************************************************************)

\* the confidence the claim states, in tenths: 6 for two or more keywords, 3
\* for exactly one, plus 3 per matching pattern type, plus 2 when at least
\* one red-flag category matches
StatedConfidence(text) ==
    (IF keyword_hits(text) >= 2 THEN 6
     ELSE IF keyword_hits(text) = 1 THEN 3 ELSE 0)
    + 3 * Cardinality({key \in PatternKeys : findall(key, text) # <<>>})
    + (IF identify_red_flags(text) # <<>> THEN 2 ELSE 0)

\* the threshold the claim states, in tenths
StatedThreshold(turn) == IF turn <= 1 THEN 3 ELSE IF turn = 2 THEN 2 ELSE 1

\* the text carries no keyword, no identifier and no red-flag trigger
NoSignal(text) ==
    /\ keyword_hits(text) = 0
    /\ \A key \in PatternKeys : findall(key, text) = <<>>
    /\ identify_red_flags(text) = <<>>

\* C12: detect_scam(text, turn) is true exactly when the stated confidence of
\* the text reaches the stated threshold of the turn; a text with no signal
\* is not a scam at turn 1, and a text with two or more keywords is.
C12_DetectIsConfidenceVsThreshold ==
    call.fn = "detect_scam"
        => /\ call.result =
                (StatedConfidence(call.text) >= StatedThreshold(call.turn))
           /\ NoSignal(call.text) /\ call.turn = 1 => ~call.result
           /\ keyword_hits(call.text) >= 2 /\ call.turn = 1 => call.result

\* the detector was called at turn 2 on a text whose confidence is exactly
\* the threshold of turn 2 and below that of turn 1
C12_Witness ==
    /\ call.fn = "detect_scam"
    /\ call.turn = 2
    /\ StatedConfidence(call.text) = 2
    /\ call.result
    /\ ~detect_scam(call.text, 1)

(***************************************************************************)
(* Detection by the handler (C13, C14), checked under SpecDetect           *)
(***************************************************************************)

\* the detected flag of sid in the store, false for a session not yet created
DetectedIn(store, sid) == sid \in DOMAIN store /\ store[sid].scam_detected

\* the text's only signal is a red-flag trigger: confidence 0.2, no keyword
OnlyRedFlag(text) == confidence(text) = 2 /\ keyword_hits(text) = 0

\* C13: a live message whose only signal is a red-flag trigger, processed as
\* the k-th turn of an undetected session (k = messages_exchanged + 1),
\* leaves the session undetected when k = 1 and marks it detected when
\* k >= 2.
C13_ThresholdOfTurn ==
    [][\A sid \in SessionIds :
        /\ nreq' = nreq + 1
        /\ request'.sessionId = sid
        /\ OnlyRedFlag(strip(request'.message))
        /\ CounterIn(sessions, sid) < MAX_MESSAGES
        /\ ~DetectedIn(sessions, sid)
        => (DetectedIn(sessions', sid) <=> CounterIn(sessions, sid) + 1 >= 2)]_vars

\* C14: once the handler has processed the third non-empty message of a
\* session (no history is replayed under SpecDetect, so the turn counter is
\* the number of processed messages), scam_detected is true.
C14_DetectedFromTurnThree ==
    \A sid \in DOMAIN sessions :
        sessions[sid].messages_exchanged >= 3 => sessions[sid].scam_detected

(***************************************************************************)
(* The report at the hard cap (C15), checked under Spec                    *)
(***************************************************************************)

\* the handler of a request for sid starts in this step
Arrives(sid) == nreq' = nreq + 1 /\ request'.sessionId = sid

\* C15: a request that arrives for a session at the hard cap with
\* scam_detected true and callback_sent false makes exactly one report call
\* and returns its closing reply only after it (the handler is suspended in
\* the POST with the closing reply still to return); from then on the session
\* stays at the cap with callback_sent true, and a request that arrives for it
\* makes no report call and returns the closing reply.
C15_OneReportAtHardCap ==
    [][\A sid \in SessionIds :
        Arrives(sid) /\ AtCapIn(sessions, sid)
        => /\ AtCapIn(sessions', sid)
           /\ IF sessions[sid].scam_detected /\ ~sessions[sid].callback_sent
              THEN /\ Len(ReportsOf(callbacks', sid)) =
                        Len(ReportsOf(callbacks, sid)) + 1
                   /\ sessions'[sid].callback_sent
                   /\ response' = response
                   /\ awaiting' = awaiting (+)
                        SetToBag({Suspended(sid, CLOSING_REPLY, TRUE)})
              ELSE /\ callbacks' = callbacks
                   /\ sessions'[sid] = sessions[sid]
                   /\ awaiting' = awaiting
                   /\ response'.reply = CLOSING_REPLY]_vars

\* A session seeded at the cap by replayed history alone (no turn of it was
\* processed, so no report came from step 6) has made its one report call,
\* and a later request has been answered with the closing reply and no
\* second call while the handler that reported is still in its POST.
C15_Witness ==
    \E sid \in DOMAIN sessions :
        /\ nreq = 3
        /\ sessions[sid].messages_exchanged = MAX_MESSAGES
        /\ \A k \in 1..Len(sessions[sid].conversation) :
                sessions[sid].conversation[k].agent = AGENT_TEXT
        /\ Len(ReportsOf(callbacks, sid)) = 1
        /\ awaiting = SetToBag({Suspended(sid, CLOSING_REPLY, TRUE)})
        /\ response = HoneypotResponse(CLOSING_REPLY, "Already sent")

(***************************************************************************)
(* Fallback substitution (C16), checked under SpecFn                       *)
(***************************************************************************)

\* NAIVE_RESPONSES[n mod len(NAIVE_RESPONSES)], the tuple indexed from 0
FallbackOf(n) == NAIVE_RESPONSES[(n % Len(NAIVE_RESPONSES)) + 1]

HasForbidden(text) ==
    \E pattern \in FORBIDDEN_PATTERNS : Contains(casefold(text), pattern)

\* the generator output is to be rejected, as the claim states it: the
\* length is that of the output as generated
RejectedAsStated(llm) ==
    \/ llm.kind # "text"
    \/ llm.text = ""
    \/ HasForbidden(llm.text)
    \/ Len(llm.text) > MAX_REPLY_LEN

\* the generator output is rejected: emptiness and length are those of the
\* output stripped of leading and trailing whitespace
Rejected(llm) ==
    \/ llm.kind # "text"
    \/ strip(llm.text) = ""
    \/ HasForbidden(llm.text)
    \/ Len(strip(llm.text)) > MAX_REPLY_LEN

C17_AlwaysSuccessEnvelope ==
    /\ response # NoResponse
            => response.status = "success" /\ response.reply # ""
    /\ \A h \in BagToSet(awaiting) : h.reply # ""

\* the response of a turn on which the generator failed and the delivery of
\* the report failed
C17_Witness ==
    /\ response.callbackSent = "FAILED"
    /\ response.status = "success"
    /\ \E k \in 1..Len(NAIVE_RESPONSES) : response.reply = NAIVE_RESPONSES[k]
    /\ awaiting = EmptyBag

(***************************************************************************)
(* Empty message, report delivery, reported sessions (C18, C19, C20),      *)
(* checked under Spec                                                      *)
(***************************************************************************)

\* the record of sid in the store, the record get_session would create for a
\* session not yet in it
SessionIn(store, sid) == IF sid \in DOMAIN store THEN store[sid] ELSE NewSession

\* the reply of the handler that ran in this step: the reply of the response
\* it returned or, when it was suspended in the POST, the reply it will return
ReplyOfStep ==
    IF awaiting' = awaiting THEN response'.reply
    ELSE (CHOOSE h \in BagToSet(awaiting') :
            CopiesIn(h, awaiting') > CopiesIn(h, awaiting)).reply

\* C18: a request whose message text is empty returns the neutral greeting
\* and leaves the turn counter, phase, log, evidence, red flags, detected
\* flag and report-sent flag of its session unchanged, whatever its
\* conversationHistory.
C18_EmptyMessageChangesNothing ==
    [][\A sid \in SessionIds :
        Arrives(sid) /\ strip(request'.message) = ""
        => /\ ReplyOfStep = NEUTRAL_REPLY
           /\ SessionIn(sessions', sid) = SessionIn(sessions, sid)]_vars

\* C19: a request that triggers the report returns its reply without waiting
\* for the POST: the step that makes the report call suspends no handler.
C19_ReplyDoesNotWait ==
    [][callbacks' # callbacks => awaiting' = awaiting]_vars

\* C20: a request arriving for a session whose callback_sent is already true
\* gets the closing reply and changes nothing in the session, also below
\* MAX_MESSAGES.
C20_ReportedSessionIsClosed ==
    [][\A sid \in SessionIds :
        Arrives(sid) /\ SentIn(sessions, sid)
        => /\ ReplyOfStep = CLOSING_REPLY
           /\ sessions'[sid] = sessions[sid]]_vars

(***************************************************************************)
(* The report on every turn from MIN_MESSAGES on (C21), checked under Spec *)
(***************************************************************************)

\* C21: a request that processes a non-empty message and leaves its session
\* detected with a turn counter of MIN_MESSAGES or more posts one report of
\* that session within the request, carrying the counter it leaves, whether
\* or not a report was sent before.
C21_ReportOnEveryTurn ==
    [][\A sid \in SessionIds :
        /\ Arrives(sid)
        /\ ProcessesMessage(request')
        /\ sessions'[sid].scam_detected
        /\ sessions'[sid].messages_exchanged >= MIN_MESSAGES
        => /\ Len(callbacks') = Len(callbacks) + 1
           /\ callbacks'[Len(callbacks')] =
                CallbackPayload(sid, sessions'[sid])
           /\ sessions'[sid].callback_sent]_vars

\* the report was sent on turn MIN_MESSAGES and sent again, updated, on the
\* next turn
C21_Witness ==
    \E sid \in DOMAIN sessions :
        /\ Len(ReportsOf(callbacks, sid)) = 2
        /\ ReportsOf(callbacks, sid)[1].totalMessagesExchanged = MIN_MESSAGES
        /\ ReportsOf(callbacks, sid)[2].totalMessagesExchanged = MIN_MESSAGES + 1
        /\ sessions[sid].messages_exchanged = MIN_MESSAGES + 1

(***************************************************************************)
(* Get-or-create (C22), checked under Spec                                 *)
(***************************************************************************)

\* a session identifier no request has used
UNKNOWN_ID == "s2"

\* C22: in every store the engine reaches, get_session of an identifier that
\* is not in the store adds a record with turn counter 0, detected false,
\* phase trust_building, six empty evidence lists, no red flag, an empty log
\* and callback_sent false, and leaves every other record as it is;
\* get_session of an identifier that is in the store changes nothing; and a
\* second reference right after the first changes nothing.
C22_GetOrCreate ==
    \A sid \in SessionIds \cup {UNKNOWN_ID} :
        LET store == get_session(sessions, sid)
        IN  /\ DOMAIN store = DOMAIN sessions \cup {sid}
            /\ \A id \in DOMAIN sessions : store[id] = sessions[id]
            /\ sid \notin DOMAIN sessions
                  => store[sid] =
                        [messages_exchanged |-> 0,
                         scam_detected |-> FALSE,
                         state |-> "trust_building",
                         extracted_intelligence |->
                            [list \in EvidenceLists |-> <<>>],
                         red_flags |-> <<>>,
                         callback_sent |-> FALSE,
                         conversation |-> <<>>]
            /\ get_session(store, sid) = store

\* a session that was created by its first request and has been referred to
\* by later requests, with turns, evidence and a report to keep
C22_Witness ==
    \E sid \in DOMAIN sessions :
        /\ nreq = 3
        /\ sessions[sid].messages_exchanged = 3
        /\ sessions[sid].scam_detected
        /\ sessions[sid].extracted_intelligence.suspiciousKeywords # <<>>
        /\ UNKNOWN_ID \notin DOMAIN sessions

(***************************************************************************)
(* The red-flag list (C23), checked under SpecIntel                        *)
(***************************************************************************)

\* the texts a request has analysed, in order: none at the hard cap,
\* otherwise the non-empty texts of its conversationHistory and then its
\* message text, if not blank
AnalysedTexts(store, req) ==
    IF AtCapIn(store, req.sessionId) THEN <<>>
    ELSE LET history == req.conversationHistory
             texts == [k \in 1..Len(history) |-> history[k].text]
         IN  SelectSeq(texts, LAMBDA t : t # "")
                \o (IF strip(req.message) # ""
                    THEN <<strip(req.message)>> ELSE <<>>)

\* the labels identify_red_flags returns for the texts, one text after the
\* other
RECURSIVE LabelsOf(_, _)
LabelsOf(texts, k) ==
    IF k > Len(texts) THEN <<>>
    ELSE identify_red_flags(texts[k]) \o LabelsOf(texts, k + 1)

Elements(list) == {list[k] : k \in 1..Len(list)}

\* the place of the first occurrence of x in list
FirstIndex(list, x) == CHOOSE k \in 1..Len(list) :
                          list[k] = x /\ \A j \in 1..(k - 1) : list[j] # x

\* C23: over every request the red_flags list of its session keeps its
\* entries in place, holds no label twice, gains exactly the labels
\* identify_red_flags returns for the texts the request analysed that were
\* not in the list, and gains them in the order in which they were first
\* returned.
C23_RedFlagsAccumulate ==
    [][\A sid \in SessionIds :
        Arrives(sid)
        => LET old == SessionIn(sessions, sid).red_flags
               new == sessions'[sid].red_flags
               labels == LabelsOf(AnalysedTexts(sessions, request'), 1)
           IN  /\ IsPrefix(old, new)
               /\ Cardinality(Elements(new)) = Len(new)
               /\ Elements(new) = Elements(old) \cup Elements(labels)
               /\ \A i, j \in (Len(old) + 1)..Len(new) :
                     i < j => FirstIndex(labels, new[i])
                                < FirstIndex(labels, new[j])]_vars

\* three requests: the first brought one label, the second two more, the
\* third only labels the list already had
C23_Witness ==
    \E sid \in DOMAIN sessions :
        /\ Len(sessions[sid].conversation) = 3
        /\ sessions[sid].conversation[1].scammer = TEXT_EMAIL
        /\ sessions[sid].conversation[2].scammer = TEXT_URL
        /\ sessions[sid].conversation[3].scammer = TEXT_UPI_PHONE
        /\ Len(identify_red_flags(TEXT_UPI_PHONE)) = 2
        /\ sessions[sid].red_flags =
              identify_red_flags(TEXT_EMAIL) \o identify_red_flags(TEXT_URL)
        /\ Len(sessions[sid].red_flags) = 3

(***************************************************************************)
(* Digit runs that are recorded phones (C24), checked under SpecIntel      *)
(***************************************************************************)

\* the digit sequences of the phone numbers recorded in the store for sid
PhoneDigitsIn(store, sid) ==
    LET phones == SessionIn(store, sid).extracted_intelligence.phoneNumbers
    IN  {KeepChars(phones[k], Digits) : k \in 1..Len(phones)}

\* C24: a request adds no digit run to bankAccounts that equals, itself or by
\* its last 10 digits, the digit sequence of a phone number that was
\* recorded in phoneNumbers before the request.
C24_PhoneRunsAreNotAccounts ==
    [][\A sid \in SessionIds :
        Arrives(sid)
        => LET old == SessionIn(sessions, sid).extracted_intelligence.bankAccounts
               new == sessions'[sid].extracted_intelligence.bankAccounts
           IN  \A k \in (Len(old) + 1)..Len(new) :
                 /\ new[k] \notin PhoneDigitsIn(sessions, sid)
                 /\ Last10(new[k]) \notin PhoneDigitsIn(sessions, sid)]_vars

(***************************************************************************)
(* When the report is sent (C25), checked under Spec                       *)
(***************************************************************************)

\* C25: a request that posts a report leaves its session, at the moment of
\* the post, detected and with MIN_MESSAGES turns or more, and the report
\* says so; every report ever posted carries scamDetected true and a turn
\* count of MIN_MESSAGES or more.
C25_ReportOnlyWhenDue ==
    [][/\ callbacks' # callbacks
            => \E sid \in SessionIds :
                /\ Arrives(sid)
                /\ callbacks' =
                      Append(callbacks, CallbackPayload(sid, sessions'[sid]))
                /\ sessions'[sid].scam_detected
                /\ sessions'[sid].messages_exchanged >= MIN_MESSAGES
       /\ \A k \in 1..Len(callbacks') :
            /\ callbacks'[k].scamDetected
            /\ callbacks'[k].totalMessagesExchanged >= MIN_MESSAGES]_vars

\* the report of the hard-cap path: replayed history seeded the session at
\* the cap on the first request, which sent nothing (no turn was processed),
\* and the second request posted the one report, with MAX_MESSAGES turns
C25_Witness ==
    /\ Len(callbacks) = 1
    /\ callbacks[1].totalMessagesExchanged = MAX_MESSAGES
    /\ awaiting = SetToBag({Suspended("s1", CLOSING_REPLY, TRUE)})
    /\ nreq = 2

(***************************************************************************)
(* The frame of the hard cap (C26), checked under Spec                     *)
(***************************************************************************)

\* the session without its callback_sent field
ExceptSent(session) == [session EXCEPT !.callback_sent = FALSE]

C27_SentStaysSent ==
    [][/\ \A sid \in SessionIds :
            /\ Len(ReportsOf(callbacks', sid)) > Len(ReportsOf(callbacks, sid))
                  => SentIn(sessions', sid)
            /\ SentIn(sessions, sid) => SentIn(sessions', sid)
       /\ \A h \in BagToSet(awaiting) :
            awaiting' = awaiting (-) SetToBag({h})
            => /\ sessions' = sessions
               /\ callbacks' = callbacks
               /\ response'.status = "success"
               /\ response'.reply = h.reply
               /\ response'.callbackSent \in PostOutcomes \cup {"Already sent"}
               /\ SentIn(sessions', h.sessionId)]_vars

\* the delivery of the report of turn MIN_MESSAGES failed, the flag stayed
\* true, and the next turn of the session was processed and is posting its
\* own report
C27_Witness ==
    \E sid \in DOMAIN sessions :
        /\ response.callbackSent = "FAILED"
        /\ response.status = "success"
        /\ sessions[sid].callback_sent
        /\ sessions[sid].messages_exchanged = MIN_MESSAGES + 1
        /\ Len(ReportsOf(callbacks, sid)) = 2
        /\ awaiting # EmptyBag

(***************************************************************************)
(* One directive per phase (C28), checked under SpecFn                     *)
(***************************************************************************)

\* C28: the directive get_phase_instruction gives a session is the one it
\* gives every session in the same phase state with the same evidence.
C28_DirectiveOfPhase ==
    call.fn = "get_phase_instruction"
        => \A n \in PhaseCounters :
            /\ PhaseSession(n).state = call.session.state
            /\ PhaseSession(n).extracted_intelligence
                    = call.session.extracted_intelligence
            => get_phase_instruction(PhaseSession(n)) = call.result

(***************************************************************************)
(* The reply to an undetected session (C29), checked under SpecDetect      *)
(***************************************************************************)

\* C29: a request that processes a non-empty message with no scam keyword
\* and leaves its session undetected is answered with the neutral greeting,
\* the reply given to empty messages.
C29_NeutralReplyWhenUndetected ==
    [][\A sid \in SessionIds :
        /\ Arrives(sid)
        /\ ProcessesMessage(request')
        /\ keyword_hits(strip(request'.message)) = 0
        /\ ~sessions'[sid].scam_detected
        => ReplyOfStep = NEUTRAL_REPLY]_vars

(***************************************************************************)
(* History sent to a session with turns (C30), checked under Spec          *)
(***************************************************************************)

\* the evidence, red flags and detected flag of a session
Findings(session) ==
    [extracted_intelligence |-> session.extracted_intelligence,
     red_flags |-> session.red_flags,
     scam_detected |-> session.scam_detected]

\* C30: for a session with one prior turn or more, a request leaves the
\* evidence, red flags and detected flag that the same request without its
\* conversationHistory leaves: those of before when the message is blank or
\* the session at the hard cap, otherwise those of steps 1 to 3 on the
\* message (with the promotion of step 4 on two keyword hits).
C30_HistoryOnlyOnFirstCall ==
    [][\A sid \in SessionIds :
        /\ Arrives(sid)
        /\ CounterIn(sessions, sid) >= 1
        => LET message == strip(request'.message)
               after == IF ProcessesMessage(request')
                        THEN DetectExtractFlag(sessions[sid], message)
                        ELSE sessions[sid]
           IN  Findings(sessions'[sid]) =
                 [Findings(after) EXCEPT !.scam_detected =
                     \/ @
                     \/ ProcessesMessage(request')
                            /\ keyword_hits(message) >= 2]]_vars

(***************************************************************************)
(* Whose texts cause detection (C31), checked under SpecEcho               *)
(***************************************************************************)

\* C31: a request turns scam_detected from false to true only if a text of
\* the correspondent is classified as scam in it: its live message, or an
\* entry of its conversationHistory whose sender is "scammer".
C31_OnlyCorrespondentTexts ==
    [][\A sid \in SessionIds :
        /\ Arrives(sid)
        /\ ~DetectedIn(sessions, sid)
        /\ sessions'[sid].scam_detected
        => LET message == strip(request'.message)
               history == request'.conversationHistory
           IN  \/ /\ ProcessesMessage(request')
                  /\ detect_scam(message, 1) \/ keyword_hits(message) >= 2
               \/ \E k \in 1..Len(history) :
                    /\ history[k].sender = "scammer"
                    /\ history[k].text # ""
                    /\ detect_scam(history[k].text, 1)]_vars

(***************************************************************************)
(* Overlapping requests for one session (C32, C33), checked under Spec     *)
(***************************************************************************)

\* a handler serving sid is suspended in the POST of its report
InProgress(sid) == \E h \in BagToSet(awaiting) : h.sessionId = sid

\* C32: while a request for a session is in progress, suspended in the POST
\* of its report, no other request for that session starts, reads the
\* session or writes to it.
C32_OneRequestAtATime ==
    [][\A sid \in SessionIds : InProgress(sid) => ~Arrives(sid)]_vars

\* the log length of sid in the store, 0 for a session not yet created
LogLengthIn(store, sid) ==
    IF sid \in DOMAIN store THEN Len(store[sid].conversation) ELSE 0

\* the log entries the request req replays: the "scammer" entries of its
\* history when the session arrives with no turn
ReplayedEntries(req) ==
    IF CounterIn(sessions, req.sessionId) = 0
    THEN Cardinality({k \in 1..Len(req.conversationHistory) :
                        req.conversationHistory[k].sender = "scammer"})
    ELSE 0

\* C33 as stated: every request that processes a non-empty message below the
\* cap raises the turn counter by exactly 1 and appends exactly 1 log entry,
\* whatever handlers are suspended meanwhile, and the resumption of a
\* suspended handler changes no session.
C33_NoLostIncrement ==
    [][/\ \A sid \in SessionIds :
            Arrives(sid) /\ ProcessesMessage(request')
            => /\ CounterIn(sessions', sid) = CounterIn(sessions, sid) + 1
               /\ LogLengthIn(sessions', sid) = LogLengthIn(sessions, sid) + 1
       /\ nreq' = nreq => sessions' = sessions]_vars

\* C33 as amended: every request that processes a non-empty message below
\* the cap applies its own increment and appends its own log entry exactly
\* once, on top of the turns and entries it replays from conversationHistory
\* when the session has no turn yet; when another handler of the session is
\* suspended meanwhile the growth is exactly 1 and 1; and the resumption of a
\* suspended handler changes no session.
C33_OwnIncrementApplied ==
    [][/\ \A sid \in SessionIds :
            Arrives(sid) /\ ProcessesMessage(request')
            => /\ CounterIn(sessions', sid) =
                    CounterIn(sessions, sid) + ReplayedTurns(request') + 1
               /\ LogLengthIn(sessions', sid) =
                    LogLengthIn(sessions, sid) + ReplayedEntries(request') + 1
               /\ sessions'[sid].conversation[LogLengthIn(sessions', sid)].scammer
                    = strip(request'.message)
               /\ InProgress(sid)
                    => /\ CounterIn(sessions', sid) = CounterIn(sessions, sid) + 1
                       /\ LogLengthIn(sessions', sid)
                            = LogLengthIn(sessions, sid) + 1
       /\ nreq' = nreq => sessions' = sessions]_vars

\* three requests of one session overlap: each processed a message and is
\* suspended in the POST of its report, and the counter shows all three
C33_Witness ==
    \E sid \in DOMAIN sessions :
        /\ BagCardinality(awaiting) = 3
        /\ \A h \in BagToSet(awaiting) : h.sessionId = sid /\ ~h.at_cap
        /\ sessions[sid].messages_exchanged = MIN_MESSAGES + 2
        /\ Len(sessions[sid].conversation) = MIN_MESSAGES + 2

(***************************************************************************)
(* What a report contains (C35), checked under SpecIntel                   *)
(***************************************************************************)

\* C35: the report posted by a request that processes a message carries a
\* turn count that includes this message, the evidence record as extracted
\* from this message on top of what the session held (after its
\* conversationHistory), with every keyword of the message, and every
\* red-flag label of the message.
C35_ReportContainsThisTurn ==
    [][\A sid \in SessionIds :
        /\ Arrives(sid)
        /\ ProcessesMessage(request')
        /\ callbacks' # callbacks
        => LET report == callbacks'[Len(callbacks')]
               message == strip(request'.message)
               before == ApplyHistory(SessionIn(sessions, sid),
                                      request'.conversationHistory)
           IN  /\ report.sessionId = sid
               /\ report.totalMessagesExchanged = before.messages_exchanged + 1
               /\ report.totalMessagesExchanged = sessions'[sid].messages_exchanged
               /\ report.extractedIntelligence =
                    extract_intelligence(message, before.extracted_intelligence)
               /\ \A k \in 1..Len(keywords_in(message)) :
                    InList(keywords_in(message)[k],
                           report.extractedIntelligence.suspiciousKeywords)
               /\ Elements(identify_red_flags(message))
                    \subseteq Elements(report.redFlagsIdentified)]_vars

\* the first report of a session was posted by the turn that brought its
\* only link: the report has the link and the red flag of the link
C35_Witness ==
    \E sid \in DOMAIN sessions :
        /\ Len(callbacks) = 1
        /\ request.message = TEXT_URL
        /\ \A k \in 1..(Len(sessions[sid].conversation) - 1) :
                sessions[sid].conversation[k].scammer # TEXT_URL
        /\ callbacks[1].totalMessagesExchanged = Len(sessions[sid].conversation)
        /\ callbacks[1].extractedIntelligence.phishingLinks # <<>>
        /\ Elements(identify_red_flags(TEXT_URL))
                \subseteq Elements(callbacks[1].redFlagsIdentified)
        /\ identify_red_flags(TEXT_URL) # <<>>

(***************************************************************************)
(* Sessions are independent (C36), checked under SpecPair                  *)
(***************************************************************************)

\* C36: a request for one session identifier leaves the record of every
\* other session of the store in the store and unchanged, and so does the
\* resumption of a suspended handler.
C36_OtherSessionsUntouched ==
    [][/\ \A sid \in PairIds :
            Arrives(sid)
            => \A other \in DOMAIN sessions \ {sid} :
                /\ other \in DOMAIN sessions'
                /\ sessions'[other] = sessions[other]
       /\ nreq' = nreq => sessions' = sessions]_vars

\* two sessions with different records: one seeded, detected and reported,
\* the other with a single turn, served before the last request of the first
C36_Witness ==
    /\ DOMAIN sessions = PairIds
    /\ request.sessionId = "s1"
    /\ sessions["s1"].messages_exchanged = MIN_MESSAGES
    /\ sessions["s1"].callback_sent
    /\ sessions["s2"].messages_exchanged = 1
    /\ ~sessions["s2"].callback_sent
    /\ Len(sessions["s2"].conversation) = 1
    /\ Len(ReportsOf(callbacks, "s2")) = 0

(***************************************************************************)
(* The turn counter and the hard cap (C37)                                 *)
(***************************************************************************)

\* C37: in every reachable state the turn counter of every session is at
\* most MAX_MESSAGES.
C37_CounterWithinCap ==
    \A sid \in DOMAIN sessions :
        sessions[sid].messages_exchanged <= MAX_MESSAGES

(***************************************************************************)
(* The suspicion reply (C38), checked under SpecDetect                     *)
(***************************************************************************)

\* C38: a request whose non-empty message holds at least one scam keyword
\* and is processed below the hard cap finds its session detected after step
\* 1, so the reply is never one of SUSPICION_REPLIES and the promotion on two
\* keyword hits changes nothing; no request at all is answered with one of
\* SUSPICION_REPLIES.
C38_NoSuspicionReply ==
    [][\A sid \in SessionIds :
        Arrives(sid)
        => /\ ReplyOfStep \notin Elements(SUSPICION_REPLIES)
           /\ (/\ ProcessesMessage(request')
               /\ keyword_hits(strip(request'.message)) >= 1)
              => /\ DetectStep(SessionIn(sessions, sid),
                               strip(request'.message)).scam_detected
                 /\ sessions'[sid].scam_detected]_vars

\* the first turn of a session is a message with exactly one keyword and
\* nothing else: the session is detected and the reply is not a suspicion
\* reply
C38_Witness ==
    /\ request.message = ONE_KEYWORD
    /\ keyword_hits(ONE_KEYWORD) = 1
    /\ confidence(ONE_KEYWORD) = threshold(1)
    /\ request.sessionId \in DOMAIN sessions
    /\ sessions[request.sessionId].messages_exchanged = 1
    /\ sessions[request.sessionId].scam_detected
    /\ response.reply \notin Elements(SUSPICION_REPLIES)
    /\ response.reply # NEUTRAL_REPLY

(***************************************************************************)
(* The order of extraction (C39), checked under SpecFn                     *)
(***************************************************************************)

\* two evidence records hold the same entries in every list, in any order
SameContents(a, b) ==
    \A f \in EvidenceLists : Elements(a[f]) = Elements(b[f])

\* C39: for the text T1 of a call of extract_intelligence on the evidence
\* record of a new session and every text T2 with identifiers, extracting
\* T1 then T2 leaves the same contents in every evidence list as extracting
\* T2 then T1.
C39_OrderIndependent ==
    call.fn = "extract_intelligence"
    => \A T2 \in IntelTexts :
          SameContents(
              extract_intelligence(T2, call.result),
              extract_intelligence(call.text,
                                   extract_intelligence(T2, EmptyIntel)))

(***************************************************************************)
(* The report of src/api.py as a background task (C34), checked under      *)
(* SpecApi                                                                 *)
(***************************************************************************)

\* the number of background tasks for session sid, scheduled or posting
TasksOf(bag, sid) ==
    CopiesIn(Task(sid, "scheduled"), bag) + CopiesIn(Task(sid, "posting"), bag)

\* C34: in src/api.py at most one report is ever posted for a session and
\* at most one send_callback task exists for it, under every ordering of
\* requests, task starts and POST completions: the request that schedules
\* the task leaves the session terminated, a terminated session stays
\* terminated, and every later request for it returns the closing reply and
\* changes neither the session nor the tasks nor the reports.
C34_ReportAtMostOnce ==
    [][\A sid \in PairIds :
        /\ Len(ReportsOf(callbacks', sid)) <= 1
        /\ TasksOf(awaiting', sid) <= 1
        /\ (Arrives(sid) /\ TasksOf(awaiting', sid) > TasksOf(awaiting, sid))
           => sessions'[sid].state = "terminated"
        /\ (sid \in DOMAIN sessions /\ sessions[sid].state = "terminated")
           => /\ sessions'[sid].state = "terminated"
              /\ Arrives(sid)
                 => /\ response'.reply = API_GOODBYE
                    /\ sessions' = sessions
                    /\ awaiting' = awaiting
                    /\ callbacks' = callbacks]_vars

\* a request arrived for a session whose task was scheduled and had not yet
\* started: it got the closing reply, and the one task is still to run
C34_Witness ==
    /\ BagIn(Task("s1", "scheduled"), awaiting)
    /\ "s1" \in DOMAIN sessions
    /\ sessions["s1"].state = "terminated"
    /\ ~sessions["s1"].callback_sent
    /\ sessions["s1"].messages_exchanged = api_MIN_MESSAGES
    /\ request.sessionId = "s1"
    /\ response.reply = API_GOODBYE
    /\ Len(ReportsOf(callbacks, "s1")) = 0

=============================================================================
